---- MODULE Spec2Model ----
(***************************************************************************)
(* Citation index of the flashcard editor: the index builder and collapse  *)
(* pass of CitationTooltipFixed.createCitationMap, the identity-keyed      *)
(* facade of utils/citations, the time-range overlap resolver, and the     *)
(* formatters and tooltip that consume them.                               *)
(*                                                                         *)
(* JavaScript values are represented as follows.                           *)
(*   number[]              a sequence of integers                          *)
(*   Map<number, number[]> a function whose domain is the set of keys      *)
(*   Set<number>           a duplicate-free sequence in insertion order    *)
(*   timestamps            integers (only their order is used)             *)
(***************************************************************************)
EXTENDS Integers, Sequences, FiniteSets, TLC

\* ------------------------------------------------------------------ bounds
MaxCard == 2            \* card ids are 1..MaxCard
MaxTime == 2            \* timestamps are 0..MaxTime
MaxVideoCitations == 3  \* video_timestamp citations in a transcript query
MaxCitations == 2       \* citations in a list handed to an index build
MaxUnit == 3            \* range endpoints of text citations are 1..MaxUnit
MaxSentences == 2       \* sentences in a paragraph
MaxItems == 2           \* content items in a document
MaxListItems == 2       \* items in a list

VARIABLES
    citations,          \* the citation list handed to the formatter (list instance 1)
    refetched,          \* the list instances created after the first: <<>> or <<list>>
    doc,                \* the parsed content: a sequence of sections, each a sequence of items
    segment,            \* the transcript segment queried, <<start_time, end_time>>
    documentJson,       \* the JSON object the formatter passed to createCitationMap
    citationMap,        \* the index createCitationMap returned to the formatter
    citationMapCache,   \* the WeakMap of utils/citations: list instance -> index, NoMap if absent
    builds,             \* how often utils/citations built an index for each list instance
    ret,                \* the last operation and what it returned
    studyPage,          \* the useState values of the study page
    inFlight,           \* the study page's handler calls suspended at an await
    server,             \* the requests the study-session API has received
    flashcards,         \* the flashcards of the edit form
    deletedFlashcardIds,\* the ids the edit form marked for deletion
    poll                \* the frame of a waitForAIScore call

inputVars == <<citations, refetched, doc, segment>>
mapVars == <<documentJson, citationMap>>
facadeVars == <<citationMapCache, builds>>
appVars == <<studyPage, inFlight, server, flashcards, deletedFlashcardIds, poll>>
vars == <<inputVars, mapVars, facadeVars, ret, appVars>>

CardIds == 1..MaxCard
Times == 0..MaxTime

NoRet == [op |-> "none", val |-> <<>>]
NoDoc == [none |-> TRUE]
NoMap == [none |-> TRUE]

\* The list instances, named by their identity.
Instances == {1, 2}
EmptyCache == [inst \in Instances |-> NoMap]
NoBuilds == [inst \in Instances |-> 0]

\* The study page and the edit form are not mounted and no poll is running.
NoPage == [none |-> TRUE]
NoServer == [none |-> TRUE]
NoPoll == [none |-> TRUE]
AppIdle ==
    /\ studyPage = NoPage
    /\ inFlight = <<>>
    /\ server = NoServer
    /\ flashcards = <<>>
    /\ deletedFlashcardIds = <<>>
    /\ poll = NoPoll

\* ------------------------------------------------------- JavaScript helpers
\* The elements of an array, as a set.
Elems(s) == {s[i] : i \in DOMAIN s}

\* An array holds no value twice.
NoDup(s) == \A i, j \in DOMAIN s : s[i] = s[j] => i = j

\* Array.prototype.push in place of Set.prototype.add.
SetAdd_Push(s, x) == Append(s, x)

\* Set.prototype.add followed by Array.from: insertion order, first occurrence kept.
SetAdd(s, x) == IF x \in Elems(s) THEN s ELSE Append(s, x)

\* [...new Set(arr)]
RECURSIVE Dedup(_)
Dedup(arr) ==
    IF arr = <<>> THEN <<>>
    ELSE SetAdd(Dedup(SubSeq(arr, 1, Len(arr) - 1)), arr[Len(arr)])

\* ------------------------------------------------- time-range overlap resolver
\* for (const citation of citations) { if (type !== 'video_timestamp') continue;
\*   for (const [start, end] of citation.citation_data) ranges.push(...) }
RECURSIVE DataRanges(_, _)
DataRanges(data, cardId) ==
    IF data = <<>> THEN <<>>
    ELSE <<[start |-> data[1][1], end |-> data[1][2], cardId |-> cardId]>>
         \o DataRanges(Tail(data), cardId)

RECURSIVE CollectRanges(_)
CollectRanges(cits) ==
    IF cits = <<>> THEN <<>>
    ELSE (IF cits[1].citation_type # "video_timestamp" THEN <<>>
          ELSE DataRanges(cits[1].citation_data, cits[1].card_id))
         \o CollectRanges(Tail(cits))

\* The comparator (a, b) => a.start - b.start || a.end - b.end, as "a sorts after b".
RangeAfter(a, b) == a.start > b.start \/ (a.start = b.start /\ a.end > b.end)

\* Array.prototype.sort with that comparator; the sort is stable.
RECURSIVE InsertRange(_, _)
InsertRange(sorted, r) ==
    IF sorted = <<>> THEN <<r>>
    ELSE IF RangeAfter(sorted[Len(sorted)], r)
         THEN Append(InsertRange(SubSeq(sorted, 1, Len(sorted) - 1), r), sorted[Len(sorted)])
         ELSE Append(sorted, r)

RECURSIVE SortRanges(_)
SortRanges(rs) ==
    IF rs = <<>> THEN <<>>
    ELSE InsertRange(SortRanges(SubSeq(rs, 1, Len(rs) - 1)), rs[Len(rs)])

\* ExpandLeft without the test r.start <= segmentEnd.
RECURSIVE ExpandLeft_NoStartTest(_, _, _, _, _)
ExpandLeft_NoStartTest(sr, i, s, e, acc) ==
    IF i < 0 THEN acc
    ELSE IF sr[i + 1].end < s THEN acc
    ELSE ExpandLeft_NoStartTest(sr, i - 1, s, e, SetAdd(acc, sr[i + 1].cardId))

\* The leftward loop: for (i = mid; i >= 0; i--) { if (r.end < s) break; if (r.start <= e) add }
\* Indices are the code's 0-based ones; sortedRanges[i] is sr[i + 1].
RECURSIVE ExpandLeft(_, _, _, _, _)
ExpandLeft(sr, i, s, e, acc) ==
    IF i < 0 THEN acc
    ELSE IF sr[i + 1].end < s THEN acc
    ELSE ExpandLeft(sr, i - 1, s, e,
                    IF sr[i + 1].start <= e THEN SetAdd(acc, sr[i + 1].cardId) ELSE acc)

\* ExpandRight without the loop: no range after mid is looked at.
ExpandRight_Skipped(sr, i, s, e, acc) == acc

\* The rightward loop: for (i = mid + 1; i < length; i++) { if (r.start > e) break; if (r.end >= s) add }
RECURSIVE ExpandRight(_, _, _, _, _)
ExpandRight(sr, i, s, e, acc) ==
    IF i >= Len(sr) THEN acc
    ELSE IF sr[i + 1].start > e THEN acc
    ELSE ExpandRight(sr, i + 1, s, e,
                     IF sr[i + 1].end >= s THEN SetAdd(acc, sr[i + 1].cardId) ELSE acc)

\* BinarySearch with the tests range.end <= segmentStart and range.start >= segmentEnd.
RECURSIVE BinarySearch_Strict(_, _, _, _, _)
BinarySearch_Strict(sr, left, right, s, e) ==
    IF left > right THEN <<>>
    ELSE LET mid == (left + right) \div 2
             range == sr[mid + 1]
         IN  IF range.end <= s THEN BinarySearch_Strict(sr, mid + 1, right, s, e)
             ELSE IF range.start >= e THEN BinarySearch_Strict(sr, left, mid - 1, s, e)
             ELSE ExpandRight(sr, mid + 1, s, e, ExpandLeft(sr, mid, s, e, <<>>))

\* The while (left <= right) loop of findOverlappingRanges.
RECURSIVE BinarySearch(_, _, _, _, _)
BinarySearch(sr, left, right, s, e) ==
    IF left > right THEN <<>>
    ELSE LET mid == (left + right) \div 2
             range == sr[mid + 1]
         IN  IF range.end < s THEN BinarySearch(sr, mid + 1, right, s, e)
             ELSE IF range.start > e THEN BinarySearch(sr, left, mid - 1, s, e)
             ELSE ExpandRight(sr, mid + 1, s, e, ExpandLeft(sr, mid, s, e, <<>>))

findOverlappingRanges(sortedRanges, segmentStart, segmentEnd) ==
    BinarySearch(sortedRanges, 0, Len(sortedRanges) - 1, segmentStart, segmentEnd)

findCitationsForTimeRange(cits, segmentStart, segmentEnd) ==
    findOverlappingRanges(SortRanges(CollectRanges(cits)), segmentStart, segmentEnd)

\* The overlap test of createCitationMap's video_timestamp pass.
Overlaps(start, end, segStart, segEnd) == ~(end < segStart \/ start > segEnd)

\* ------------------------------------- CitationTooltipFixed: the citation index
\* Map.prototype.get(k) || []   (stored arrays are never falsy)
MapGet(m, k) == IF k \in DOMAIN m THEN m[k] ELSE <<>>

\* Map.prototype.set(k, v)
MapSet(m, k, v) == [x \in (DOMAIN m) \cup {k} |-> IF x = k THEN v ELSE m[x]]

\* Map.prototype.delete(k)
MapDelete(m, k) == [x \in (DOMAIN m) \ {k} |-> m[x]]

\* const map = { sentences: new Map(), ..., segments: new Map() }
EmptyCitationMap ==
    [sentences |-> <<>>, paragraphs |-> <<>>, sections |-> <<>>,
     lists |-> <<>>, tables |-> <<>>, segments |-> <<>>]

\* TargetMap with a default branch that returns map.sections.
TargetMap_DefaultSections(citationType) ==
    CASE citationType = "sentence_range" -> "sentences"
      [] citationType = "paragraph" -> "paragraphs"
      [] citationType = "list" -> "lists"
      [] citationType = "table" -> "tables"
      [] citationType = "video_timestamp" -> "segments"
      [] OTHER -> "sections"

\* The switch on citation.citation_type: the field of the map a citation goes to,
\* "null" for an unrecognised type.
TargetMap(citationType) ==
    CASE citationType = "sentence_range" -> "sentences"
      [] citationType = "paragraph" -> "paragraphs"
      [] citationType = "section" -> "sections"
      [] citationType = "list" -> "lists"
      [] citationType = "table" -> "tables"
      [] citationType = "video_timestamp" -> "segments"
      [] OTHER -> "null"

\* documentJson.sections?.forEach(section => section.content?.forEach(item => ...)):
\* the items in visiting order; a document without sections visits nothing.
RECURSIVE FlattenSections(_)
FlattenSections(sections) ==
    IF sections = <<>> THEN <<>>
    ELSE sections[1] \o FlattenSections(Tail(sections))

WalkItems(docJson) ==
    IF "sections" \in DOMAIN docJson THEN FlattenSections(docJson.sections)
    ELSE <<>>

\* AddNums with the loop test num < end.
RECURSIVE AddNums_ExclusiveEnd(_, _, _, _)
AddNums_ExclusiveEnd(tm, num, end, cardId) ==
    IF num >= end THEN tm
    ELSE AddNums_ExclusiveEnd(MapSet(tm, num, Dedup(Append(MapGet(tm, num), cardId))),
                              num + 1, end, cardId)

\* AddNums with the card appended without the Set.
RECURSIVE AddNums_NoDedup(_, _, _, _)
AddNums_NoDedup(tm, num, end, cardId) ==
    IF num > end THEN tm
    ELSE AddNums_NoDedup(MapSet(tm, num, Append(MapGet(tm, num), cardId)),
                         num + 1, end, cardId)

\* for (let num = start; num <= end; num++)
\*   targetMap.set(num, [...new Set([...existing, citation.card_id])])
RECURSIVE AddNums(_, _, _, _)
AddNums(tm, num, end, cardId) ==
    IF num > end THEN tm
    ELSE AddNums(MapSet(tm, num, Dedup(Append(MapGet(tm, num), cardId))),
                 num + 1, end, cardId)

\* for (const [start, end] of citation.citation_data) { ... }   (non-video citations)
RECURSIVE AddRanges(_, _, _)
AddRanges(tm, data, cardId) ==
    IF data = <<>> THEN tm
    ELSE AddRanges(AddNums(tm, data[1][1], data[1][2], cardId), Tail(data), cardId)

\* for (const [start, end] of citation.citation_data)
\*   if (!(end < segment.start_time || start > segment.end_time)) { set; break }
\* TRUE when the loop reaches a range that overlaps the segment.
\* An item without start_time / end_time compares as undefined: both tests are false.
RECURSIVE SegmentHit(_, _)
SegmentHit(data, seg) ==
    IF data = <<>> THEN FALSE
    ELSE IF ~(\/ ("start_time" \in DOMAIN seg /\ data[1][2] < seg.start_time)
              \/ ("end_time" \in DOMAIN seg /\ data[1][1] > seg.end_time)) THEN TRUE
    ELSE SegmentHit(Tail(data), seg)

\* The video_timestamp walk of one citation; globalSegmentIndex starts at 0.
RECURSIVE AddSegments(_, _, _, _)
AddSegments(tm, items, globalSegmentIndex, citation) ==
    IF items = <<>> THEN tm
    ELSE AddSegments(
             IF SegmentHit(citation.citation_data, items[1])
             THEN MapSet(tm, globalSegmentIndex,
                         Dedup(Append(MapGet(tm, globalSegmentIndex), citation.card_id)))
             ELSE tm,
             Tail(items), globalSegmentIndex + 1, citation)

\* First pass: build the initial maps.
RECURSIVE FirstPass(_, _, _)
FirstPass(map, cits, docJson) ==
    IF cits = <<>> THEN map
    ELSE LET citation == cits[1]
             target == TargetMap(citation.citation_type)
             next ==
                 IF target = "null" THEN map
                 ELSE IF citation.citation_type = "video_timestamp"
                      THEN [map EXCEPT ![target] =
                               AddSegments(@, WalkItems(docJson), 0, citation)]
                      ELSE [map EXCEPT ![target] =
                               AddRanges(@, citation.citation_data, citation.card_id)]
         IN  FirstPass(next, Tail(cits), docJson)

\* sentenceRange.forEach(sentNum => { push(...sentCits); map.sentences.delete(sentNum) })
\* acc is <<map.sentences, sentenceCitations>>.
RECURSIVE GatherSentences(_, _, _)
GatherSentences(acc, sentNum, last) ==
    IF sentNum > last THEN acc
    ELSE LET sentCits == MapGet(acc[1], sentNum)
         IN  GatherSentences(
                 IF Len(sentCits) > 0
                 THEN <<MapDelete(acc[1], sentNum), acc[2] \o sentCits>>
                 ELSE acc,
                 sentNum + 1, last)

\* CollapseParagraph without map.sentences.delete(sentNum).
CollapseParagraph_KeepsSentences(map, item, currentSentenceNum, currentParagraphNum) ==
    LET paragraphCitations == MapGet(map.paragraphs, currentParagraphNum)
    IN  IF Len(paragraphCitations) > 0
        THEN LET g == GatherSentences(<<map.sentences, <<>>>>, currentSentenceNum,
                                      currentSentenceNum + item.sentences - 1)
             IN  [map EXCEPT
                    !.paragraphs =
                        IF Len(g[2]) > 0
                        THEN MapSet(@, currentParagraphNum,
                                    Dedup(paragraphCitations \o g[2]))
                        ELSE @]
        ELSE map

\* CollapseParagraph without the test paragraphCitations.length > 0.
CollapseParagraph_Unconditional(map, item, currentSentenceNum, currentParagraphNum) ==
    LET paragraphCitations == MapGet(map.paragraphs, currentParagraphNum)
        g == GatherSentences(<<map.sentences, <<>>>>, currentSentenceNum,
                             currentSentenceNum + item.sentences - 1)
    IN  [map EXCEPT
           !.sentences = g[1],
           !.paragraphs =
               IF Len(g[2]) > 0
               THEN MapSet(@, currentParagraphNum, Dedup(paragraphCitations \o g[2]))
               ELSE @]

\* The body of the second pass for one paragraph item.
CollapseParagraph(map, item, currentSentenceNum, currentParagraphNum) ==
    LET paragraphCitations == MapGet(map.paragraphs, currentParagraphNum)
    IN  IF Len(paragraphCitations) > 0
        THEN LET g == GatherSentences(<<map.sentences, <<>>>>, currentSentenceNum,
                                      currentSentenceNum + item.sentences - 1)
             IN  [map EXCEPT
                    !.sentences = g[1],
                    !.paragraphs =
                        IF Len(g[2]) > 0
                        THEN MapSet(@, currentParagraphNum,
                                    Dedup(paragraphCitations \o g[2]))
                        ELSE @]
        ELSE map

\* Second pass: move the sentence citations of cited paragraphs up to the paragraph.
RECURSIVE SecondPass(_, _, _, _)
SecondPass(map, items, currentSentenceNum, currentParagraphNum) ==
    IF items = <<>> THEN map
    ELSE IF "sentences" \in DOMAIN items[1]
         THEN SecondPass(
                  CollapseParagraph(map, items[1], currentSentenceNum, currentParagraphNum),
                  Tail(items), currentSentenceNum + items[1].sentences,
                  currentParagraphNum + 1)
         ELSE SecondPass(map, Tail(items), currentSentenceNum, currentParagraphNum)

createCitationMap(cits, docJson) ==
    SecondPass(FirstPass(EmptyCitationMap, cits, docJson),
               WalkItems(docJson), 1, 1)

\* text_preview: segment.text.substring(0, 50) in the video_timestamp walk reads the
\* text of every content item visited. Paragraph items carry sentences and no text
\* (PDFParagraphItem); list items and transcript segments carry text.
ItemHasText(item) == item.type # "paragraph"

\* TRUE when createCitationMap throws a TypeError instead of returning: a
\* video_timestamp citation makes the walk visit an item without text.
createCitationMapThrows(cits, docJson) ==
    /\ \E i \in DOMAIN cits : cits[i].citation_type = "video_timestamp"
    /\ \E k \in DOMAIN WalkItems(docJson) : ~ItemHasText(WalkItems(docJson)[k])

\* citationMap[elementType].get(elementNum) || []
getCombinedCitations(cmap, elementType, elementNum) ==
    MapGet(cmap[elementType], elementNum)

\* ----------------------------------------------- CitationTooltip: cardIds.sort()
\* String(n): the decimal digits of a non-negative integer.
RECURSIVE Digits(_)
Digits(n) == IF n < 10 THEN <<n>> ELSE Append(Digits(n \div 10), n % 10)

\* a < b as strings, the order of Array.prototype.sort without a comparator.
RECURSIVE StrLess(_, _)
StrLess(a, b) ==
    IF b = <<>> THEN FALSE
    ELSE IF a = <<>> THEN TRUE
    ELSE IF a[1] # b[1] THEN a[1] < b[1]
    ELSE StrLess(Tail(a), Tail(b))

RECURSIVE InsertSorted(_, _)
InsertSorted(sorted, x) ==
    IF sorted = <<>> THEN <<x>>
    ELSE IF StrLess(Digits(x), Digits(sorted[Len(sorted)]))
         THEN Append(InsertSorted(SubSeq(sorted, 1, Len(sorted) - 1), x), sorted[Len(sorted)])
         ELSE Append(sorted, x)

\* cardIds.sort(): sorts the array in place and returns it.
RECURSIVE JsSort(_)
JsSort(arr) ==
    IF arr = <<>> THEN <<>>
    ELSE InsertSorted(JsSort(SubSeq(arr, 1, Len(arr) - 1)), arr[Len(arr)])

\* ------------------------------------------------------ PlaintextFormatter
\* The paragraphs of the content in document order, with the sentence number that
\* precedes each: <<sentences, sentences before it>>.
RECURSIVE NumberParagraphs(_, _)
NumberParagraphs(items, before) ==
    IF items = <<>> THEN <<>>
    ELSE IF "sentences" \in DOMAIN items[1]
         THEN <<[sentences |-> items[1].sentences, before |-> before]>>
              \o NumberParagraphs(Tail(items), before + items[1].sentences)
         ELSE NumberParagraphs(Tail(items), before)

\* The structured plain-text JSON of the content: no sections, paragraphs carrying
\* their own number and sentence_numbers, both globally sequential from 1.
PlainTextData(content) ==
    LET ps == NumberParagraphs(FlattenSections(content), 0)
    IN  [paragraphs |->
            [k \in DOMAIN ps |->
                [number |-> k,
                 sentence_numbers |-> [i \in 1..ps[k].sentences |-> ps[k].before + i]]]]

\* renderParagraph of PlaintextFormatter: the card-id list attached to the paragraph
\* wrapper (empty when the paragraph is not wrapped) and to each sentence.
PlainRenderParagraph(paragraph, cmap) ==
    LET paragraphCardIds == getCombinedCitations(cmap, "paragraphs", paragraph.number)
    IN  [paragraph |-> paragraphCardIds,
         sentences |->
            [idx \in DOMAIN paragraph.sentence_numbers |->
                LET sentenceCardIds ==
                        getCombinedCitations(cmap, "sentences", paragraph.sentence_numbers[idx])
                IN  IF Len(paragraphCardIds) > 0 THEN paragraphCardIds ELSE sentenceCardIds]]

\* data.paragraphs.map(paragraph => renderParagraph(paragraph, citations, citationMap))
PlainRender(data, cmap) ==
    [k \in DOMAIN data.paragraphs |-> PlainRenderParagraph(data.paragraphs[k], cmap)]

\* ------------------------------------------------ utils/citations: the facade
SentenceScanLimit == 100    \* for (let i = 0; i < 100; i++)
SentenceStride == 100       \* paragraphNum * 100 + i, Math.floor(elementNum / 100)
ListItemScanLimit == 50     \* for (let i = 0; i < 50; i++)

\* for (let pos = start; pos <= end; pos++) typeMap.set(pos, [...existing, card_id])
RECURSIVE PushPositions(_, _, _, _)
PushPositions(typeMap, pos, end, cardId) ==
    IF pos > end THEN typeMap
    ELSE PushPositions(MapSet(typeMap, pos, Append(MapGet(typeMap, pos), cardId)),
                       pos + 1, end, cardId)

\* for (const [start, end] of citation.citation_data) { ... }
RECURSIVE PushRanges(_, _, _)
PushRanges(typeMap, data, cardId) ==
    IF data = <<>> THEN typeMap
    ELSE PushRanges(PushPositions(typeMap, data[1][1], data[1][2], cardId),
                    Tail(data), cardId)

\* createCitationMap of utils/citations: Map<CitationType, Map<number, number[]>>,
\* a function from the types seen to their position maps.
RECURSIVE utils_createCitationMap(_)
utils_createCitationMap(cits) ==
    IF cits = <<>> THEN <<>>
    ELSE LET map == utils_createCitationMap(SubSeq(cits, 1, Len(cits) - 1))
             citation == cits[Len(cits)]
             type == citation.citation_type
             typeMap == IF type \in DOMAIN map THEN map[type] ELSE <<>>
         IN  MapSet(map, type, PushRanges(typeMap, citation.citation_data, citation.card_id))

\* citationMapCache.get(citations): the WeakMap is keyed by the identity of the list.
CacheGet(cache, inst) == cache[inst]

\* The get-or-create step without the test of the cached value.
CreatesMap_Always(cache, inst) == TRUE

\* if (!citationMap): the call has to build the index.
CreatesMap(cache, inst) == CacheGet(cache, inst) = NoMap

\* if (!citationMap) { citationMap = createCitationMap(citations); cache.set(...) }
EnsureCitationMap(cache, inst, cits) ==
    IF CreatesMap(cache, inst)
    THEN [cache EXCEPT ![inst] = utils_createCitationMap(cits)]
    ELSE cache

findParagraphCitations(cache, paragraphNum, inst) ==
    LET cmap == CacheGet(cache, inst)
    IN  IF cmap = NoMap THEN <<>>
        ELSE IF "paragraph" \notin DOMAIN cmap THEN <<>>
        ELSE MapGet(cmap["paragraph"], paragraphNum)

hasSentenceLevelCitations(cache, paragraphNum, inst) ==
    LET cmap == CacheGet(cache, inst)
    IN  IF cmap = NoMap THEN FALSE
        ELSE IF "sentence_range" \notin DOMAIN cmap THEN FALSE
        ELSE \E sentenceNum \in DOMAIN cmap["sentence_range"] :
                /\ paragraphNum * SentenceStride <= sentenceNum
                /\ sentenceNum < paragraphNum * SentenceStride + SentenceScanLimit

\* TRUE when findCitations returns the array stored in the index (the early return
\* of the sentence_range branch) instead of a fresh copy.
findCitationsReturnsStored(cache, elementType, elementNum, inst) ==
    /\ elementType = "sentence_range"
    /\ Len(findParagraphCitations(cache, elementNum \div SentenceStride, inst)) > 0

\* findCitations, on the cache as it is after the get-or-create step.
findCitations(cache, elementType, elementNum, inst) ==
    LET cmap == CacheGet(cache, inst)
    IN  IF findCitationsReturnsStored(cache, elementType, elementNum, inst)
        THEN findParagraphCitations(cache, elementNum \div SentenceStride, inst)
        ELSE IF elementType \notin DOMAIN cmap THEN <<>>
        ELSE Dedup(MapGet(cmap[elementType], elementNum))

\* shouldHighlight without the section branch.
shouldHighlight_NoSectionRule(cache, elementType, elementNum, inst, cits) ==
    IF elementType = "paragraph"
    THEN /\ Len(findParagraphCitations(cache, elementNum, inst)) > 0
         /\ ~hasSentenceLevelCitations(cache, elementNum, inst)
    ELSE IF elementType = "sentence_range"
    THEN Len(findParagraphCitations(cache, elementNum \div SentenceStride, inst)) = 0
    ELSE Len(findCitations(EnsureCitationMap(cache, inst, cits),
                           elementType, elementNum, inst)) > 0

\* shouldHighlight, on the cache as the call finds it; the last branch goes through
\* findCitations and so through the get-or-create step.
shouldHighlight(cache, elementType, elementNum, inst, cits) ==
    IF elementType = "section" THEN FALSE
    ELSE IF elementType = "paragraph"
    THEN /\ Len(findParagraphCitations(cache, elementNum, inst)) > 0
         /\ ~hasSentenceLevelCitations(cache, elementNum, inst)
    ELSE IF elementType = "sentence_range"
    THEN Len(findParagraphCitations(cache, elementNum \div SentenceStride, inst)) = 0
    ELSE Len(findCitations(EnsureCitationMap(cache, inst, cits),
                           elementType, elementNum, inst)) > 0

\* Only the last branch of shouldHighlight reaches findCitations.
shouldHighlightCallsFindCitations(elementType) ==
    elementType \notin {"section", "paragraph", "sentence_range"}

\* The cache after shouldHighlight.
shouldHighlightCache(cache, elementType, inst, cits) ==
    IF shouldHighlightCallsFindCitations(elementType)
    THEN EnsureCitationMap(cache, inst, cits)
    ELSE cache

\* for (let i = 0; i < limit; i++) allCitations.push(...(typeMap.get(base + i) || []))
\* Absent keys push nothing, so the scan runs over the keys present, ascending.
RECURSIVE ScanKeys(_, _)
ScanKeys(typeMap, keys) ==
    IF keys = {} THEN <<>>
    ELSE LET k == CHOOSE x \in keys : \A y \in keys : x <= y
         IN  typeMap[k] \o ScanKeys(typeMap, keys \ {k})

ScanEntries(typeMap, base, i, limit) ==
    ScanKeys(typeMap, {k \in DOMAIN typeMap : base + i <= k /\ k < base + limit})

getAllSentenceCitations(cache, paragraphNum, inst) ==
    LET cmap == CacheGet(cache, inst)
    IN  IF cmap = NoMap THEN <<>>
        ELSE IF "sentence_range" \notin DOMAIN cmap THEN <<>>
        ELSE Dedup(ScanEntries(cmap["sentence_range"], paragraphNum * SentenceStride,
                               0, SentenceScanLimit))

getListItemCitations(cache, listNum, inst) ==
    LET cmap == CacheGet(cache, inst)
    IN  IF cmap = NoMap THEN <<>>
        ELSE IF "list" \notin DOMAIN cmap THEN <<>>
        ELSE Dedup(ScanEntries(cmap["list"], listNum, 0, ListItemScanLimit))

\* getCitationWrapper, on the cache as it is after the get-or-create step of its
\* first findCitations call: [shouldWrap, cardIds].
getCitationWrapper(cache, elementType, elementNum, inst, cits) ==
    LET directCitations == findCitations(cache, elementType, elementNum, inst)
        allCitations ==
            IF elementType = "list"
            THEN Dedup(directCitations \o getListItemCitations(cache, elementNum, inst))
            ELSE IF elementType = "paragraph"
            THEN Dedup(directCitations \o getAllSentenceCitations(cache, elementNum, inst))
            ELSE directCitations
    IN  [shouldWrap |-> shouldHighlight(cache, elementType, elementNum, inst, cits)
                            /\ Len(allCitations) > 0,
         cardIds |-> allCitations]

\* ----------------------------------------------------------- ImageFormatter
\* The image JSON of the content: one block per section, its paragraphs in order.
\* Block ids are the block positions.
ImageData(content) ==
    [type |-> "image",
     blocks |-> [b \in DOMAIN content |->
                    [id |-> b,
                     paragraphs |-> SelectSeq(content[b],
                                              LAMBDA item : "sentences" \in DOMAIN item)]]]

\* renderParagraph of ImageFormatter: the card-id list attached to the paragraph
\* wrapper (empty when the paragraph is not wrapped) and to each sentence.
ImageRenderParagraph(cache, paragraph, blockId, globalParagraphNumber, globalSentenceNumber, inst) ==
    LET blockCardIds == findCitations(cache, "block", blockId, inst)
        paragraphCardIds == findCitations(cache, "paragraph", globalParagraphNumber, inst)
    IN  [paragraph |->
            IF Len(blockCardIds) > 0 \/ Len(paragraphCardIds) > 0
            THEN Dedup(blockCardIds \o paragraphCardIds)
            ELSE <<>>,
         sentences |->
            [idx \in 1..paragraph.sentences |->
                LET sentenceCardIds ==
                        findCitations(cache, "sentence_range",
                                      globalSentenceNumber + idx - 1, inst)
                IN  IF Len(blockCardIds) > 0 THEN blockCardIds
                    ELSE IF Len(paragraphCardIds) > 0 THEN paragraphCardIds
                    ELSE sentenceCardIds]]

\* block.paragraphs.forEach(...) of renderBlock: paragraphs without sentences are
\* skipped and take no number.
RECURSIVE ImageRenderParagraphs(_, _, _, _, _, _)
ImageRenderParagraphs(cache, paragraphs, blockId, currentParagraphNumber, currentSentenceNumber, inst) ==
    IF paragraphs = <<>> THEN <<>>
    ELSE IF paragraphs[1].sentences > 0
         THEN <<ImageRenderParagraph(cache, paragraphs[1], blockId, currentParagraphNumber,
                                     currentSentenceNumber, inst)>>
              \o ImageRenderParagraphs(cache, Tail(paragraphs), blockId,
                                       currentParagraphNumber + 1,
                                       currentSentenceNumber + paragraphs[1].sentences, inst)
         ELSE ImageRenderParagraphs(cache, Tail(paragraphs), blockId,
                                    currentParagraphNumber, currentSentenceNumber, inst)

RECURSIVE CountSentences(_)
CountSentences(paragraphs) ==
    IF paragraphs = <<>> THEN 0
    ELSE paragraphs[1].sentences + CountSentences(Tail(paragraphs))

\* data.blocks.forEach(...) of formatImageContent; a block without paragraphs and
\* without original_text renders nothing and advances no counter.
RECURSIVE ImageRenderBlocks(_, _, _, _, _)
ImageRenderBlocks(cache, blocks, globalParagraphNumber, globalSentenceNumber, inst) ==
    IF blocks = <<>> THEN <<>>
    ELSE LET block == blocks[1]
             rendered == SelectSeq(block.paragraphs, LAMBDA q : q.sentences > 0)
         IN  ImageRenderParagraphs(cache, block.paragraphs, block.id, globalParagraphNumber,
                                   globalSentenceNumber, inst)
             \o ImageRenderBlocks(cache, Tail(blocks),
                                  globalParagraphNumber + Len(rendered),
                                  globalSentenceNumber + CountSentences(rendered), inst)

\* ------------------------------------------------------------------ inputs
TimeRanges == {r \in Times \X Times : r[1] <= r[2]}

VideoCitation(id, card, range) ==
    [citation_id |-> id, citation_type |-> "video_timestamp",
     citation_data |-> <<range>>, card_id |-> card]

\* Lists of up to MaxVideoCitations video citations, citation_id = position.
VideoCitationLists ==
    UNION {{[i \in 1..n |-> VideoCitation(i, c[i], r[i])] :
                c \in [1..n -> CardIds], r \in [1..n -> TimeRanges]} :
           n \in 0..MaxVideoCitations}

\* ------------------------------------------ specification: transcript queries
InitTime ==
    /\ citations \in VideoCitationLists
    /\ refetched = <<>>
    /\ doc = <<>>
    /\ segment \in TimeRanges
    /\ documentJson = NoDoc
    /\ citationMap = NoMap
    /\ citationMapCache = EmptyCache
    /\ builds = NoBuilds
    /\ ret = NoRet
    /\ AppIdle

\* renderTranscriptSegment / findCitationsForTimeRange for the segment.
FindCitationsForTimeRange ==
    /\ ret.op = "none"
    /\ ret' = [op |-> "findCitationsForTimeRange",
               val |-> findCitationsForTimeRange(citations, segment[1], segment[2])]
    /\ UNCHANGED <<appVars, inputVars, mapVars, facadeVars>>

\* createCitationMap over a transcript whose one segment is the segment queried.
BuildTranscriptIndex ==
    /\ citationMap = NoMap
    /\ documentJson' = [sections |-> <<<<[type |-> "segment", start_time |-> segment[1],
                                          end_time |-> segment[2]]>>>>]
    /\ citationMap' = createCitationMap(citations, documentJson')
    /\ UNCHANGED <<appVars, inputVars, facadeVars, ret>>

NextTime == FindCitationsForTimeRange \/ BuildTranscriptIndex

SpecTime == InitTime /\ [][NextTime]_vars

\* The list findOverlappingRanges receives: sorted ascending by (start, end).
IsSortedRanges(sr) ==
    \A i, j \in DOMAIN sr : i < j => ~RangeAfter(sr[i], sr[j])

\* The cards a linear scan over all ranges finds for the segment.
LinearScan(rs, s, e) ==
    {rs[i].cardId : i \in {k \in DOMAIN rs : Overlaps(rs[k].start, rs[k].end, s, e)}}

\* C1: for a list sorted by (start, end) and a segment with start <= end,
\* findOverlappingRanges returns exactly the cards of the ranges that overlap
\* the segment, the set a linear scan over all ranges returns.
C1_OverlapEqualsLinearScan ==
    ret.op = "findCitationsForTimeRange" =>
        LET sr == SortRanges(CollectRanges(citations))
        IN  IsSortedRanges(sr) /\ segment[1] <= segment[2] =>
                Elems(ret.val) = LinearScan(sr, segment[1], segment[2])

\* ------------------------------------------------------------ text inputs
UnitRanges == {r \in (1..MaxUnit) \X (1..MaxUnit) : r[1] <= r[2]}

TextCitation(id, type, card, range) ==
    [citation_id |-> id, citation_type |-> type,
     citation_data |-> <<range>>, card_id |-> card]

\* Lists of up to n citations of the given types over the given ranges.
CitationListsOf(types, ranges, maxLen) ==
    UNION {{[i \in 1..n |-> TextCitation(i, t[i], c[i], r[i])] :
                t \in [1..n -> types], c \in [1..n -> CardIds], r \in [1..n -> ranges]} :
           n \in 0..maxLen}

ParagraphItems == {[type |-> "paragraph", sentences |-> n] : n \in 1..MaxSentences}
ListItems == {[type |-> "list"]}
SegmentItems == {[type |-> "segment", start_time |-> r[1], end_time |-> r[2]] : r \in TimeRanges}

ItemSeqs(items) == UNION {[1..n -> items] : n \in 0..MaxItems}

\* No section, the items in one section, or the items cut into two sections.
ContentsOf(items) ==
    {<<>>}
    \cup {<<its>> : its \in ItemSeqs(items) \ {<<>>}}
    \cup UNION {{<<SubSeq(its, 1, k), SubSeq(its, k + 1, Len(its))>> : k \in 1..(Len(its) - 1)} :
                    its \in ItemSeqs(items)}

TextContents == ContentsOf(ParagraphItems \cup ListItems)
VideoContents == ContentsOf(SegmentItems)

\* -------------------------------- specification: index build by the formatters
InitMap ==
    /\ \/ /\ citations \in CitationListsOf({"sentence_range", "paragraph"}, UnitRanges, MaxCitations)
          /\ doc \in TextContents
       \/ /\ citations \in CitationListsOf({"video_timestamp"}, TimeRanges, MaxCitations)
          /\ doc \in VideoContents
    /\ refetched = <<>>
    /\ segment = <<0, 0>>
    /\ documentJson = NoDoc
    /\ citationMap = NoMap
    /\ citationMapCache = EmptyCache
    /\ builds = NoBuilds
    /\ ret = NoRet
    /\ AppIdle

IsTextContent == \A i \in DOMAIN doc : \A j \in DOMAIN doc[i] : doc[i][j].type # "segment"

\* FormatSections with a first pass that consumes the list (citations.shift()).
FormatSections_ShiftsList ==
    /\ citationMap = NoMap
    /\ documentJson' = [sections |-> doc]
    /\ IF createCitationMapThrows(citations, documentJson')
       THEN /\ citationMap' = NoMap
            /\ ret' = [op |-> "TypeError", val |-> <<>>]
       ELSE /\ citationMap' = createCitationMap(citations, documentJson')
            /\ ret' = [op |-> "createCitationMap", val |-> <<>>]
    /\ citations' = IF citations = <<>> THEN <<>> ELSE Tail(citations)
    /\ UNCHANGED <<appVars, refetched, doc, segment, facadeVars>>

\* A formatter's useMemo(() => createCitationMap(citations, data)) on a document
\* with sections.
FormatSections ==
    /\ citationMap = NoMap
    /\ documentJson' = [sections |-> doc]
    /\ IF createCitationMapThrows(citations, documentJson')
       THEN /\ citationMap' = NoMap
            /\ ret' = [op |-> "TypeError", val |-> <<>>]
       ELSE /\ citationMap' = createCitationMap(citations, documentJson')
            /\ ret' = [op |-> "createCitationMap", val |-> <<>>]
    /\ UNCHANGED <<appVars, inputVars, facadeVars>>

\* formatPlainTextContent: the index is built from data, which has paragraphs and no
\* sections, and every paragraph is rendered.
FormatPlainText ==
    /\ citationMap = NoMap
    /\ ret.op = "none"
    /\ IsTextContent
    /\ documentJson' = PlainTextData(doc)
    /\ citationMap' = createCitationMap(citations, documentJson')
    /\ ret' = [op |-> "formatPlainTextContent",
               val |-> PlainRender(documentJson', citationMap')]
    /\ UNCHANGED <<appVars, inputVars, facadeVars>>

ElementTypes == {"sentences", "paragraphs", "sections", "lists", "tables", "segments"}
ElementNums == 0..(MaxUnit + 1)

\* A formatter looks a unit up.
GetCombinedCitations(elementType, elementNum) ==
    /\ citationMap # NoMap
    /\ ret' = [op |-> "getCombinedCitations",
               val |-> getCombinedCitations(citationMap, elementType, elementNum)]
    /\ UNCHANGED <<appVars, inputVars, mapVars, facadeVars>>

\* A CitationTooltip of CitationTooltipFixed renders with the array a lookup returned:
\* tooltipBaseId sorts cardIds, which is the array stored in the index.
CitationTooltipFixed(elementType, elementNum) ==
    /\ citationMap # NoMap
    /\ Len(getCombinedCitations(citationMap, elementType, elementNum)) > 0
    /\ citationMap' = [citationMap EXCEPT ![elementType] =
                          MapSet(@, elementNum, JsSort(@[elementNum]))]
    /\ ret' = [op |-> "CitationTooltip", val |-> citationMap'[elementType][elementNum]]
    /\ documentJson' = documentJson
    /\ UNCHANGED <<appVars, inputVars, facadeVars>>

\* The formatter renders again with the same citations and content: the useMemo
\* callback calls createCitationMap a second time and gets a second index.
Rebuild ==
    /\ citationMap # NoMap
    /\ ret' = [op |-> "rebuild", val |-> <<>>,
               map |-> createCitationMap(citations, documentJson)]
    /\ UNCHANGED <<appVars, inputVars, mapVars, facadeVars>>

NextMap ==
    \/ FormatSections
    \/ FormatPlainText
    \/ Rebuild
    \/ \E t \in ElementTypes, n \in ElementNums : GetCombinedCitations(t, n)
    \/ \E t \in ElementTypes, n \in ElementNums : CitationTooltipFixed(t, n)

SpecMap == InitMap /\ [][NextMap]_vars

\* ------------------------------------------------- what the claims refer to
\* A unit number is hit by a citation when one of its ranges contains it.
Hits(citation, n) ==
    \E i \in DOMAIN citation.citation_data :
        citation.citation_data[i][1] <= n /\ n <= citation.citation_data[i][2]

\* The cards of the citations of a type that hit unit n.
CardsHitting(cits, type, n) ==
    {cits[i].card_id : i \in {k \in DOMAIN cits : cits[k].citation_type = type /\ Hits(cits[k], n)}}

\* The paragraph items of the content, top to bottom.
DocParagraphs == SelectSeq(FlattenSections(doc), LAMBDA item : item.type = "paragraph")

RECURSIVE SentencesThrough(_)
SentencesThrough(k) == IF k = 0 THEN 0 ELSE SentencesThrough(k - 1) + DocParagraphs[k].sentences

\* The sentence numbers of the P-th paragraph: globally sequential from 1.
SentenceSpan(P) == (SentencesThrough(P - 1) + 1)..SentencesThrough(P)

BuiltFromSections == citationMap # NoMap /\ "sections" \in DOMAIN documentJson

\* C2: after createCitationMap on a document with sections, a paragraph P hit by a
\* paragraph citation holds every card of every sentence_range citation hitting a
\* sentence of P, and the sentences map has no entry for any sentence of P.
C2_CitedParagraphSubsumesSentences ==
    BuiltFromSections =>
        \A P \in DOMAIN DocParagraphs :
            CardsHitting(citations, "paragraph", P) # {} =>
                \A s \in SentenceSpan(P) :
                    /\ CardsHitting(citations, "sentence_range", s)
                           \subseteq Elems(MapGet(citationMap.paragraphs, P))
                    /\ s \notin DOMAIN citationMap.sentences

\* A cited paragraph took over the card of a cited sentence of its span.
C2_Witness ==
    /\ BuiltFromSections
    /\ \E P \in DOMAIN DocParagraphs : \E s \in SentenceSpan(P) :
          /\ CardsHitting(citations, "paragraph", P) # {}
          /\ CardsHitting(citations, "sentence_range", s) # {}
          /\ ~(CardsHitting(citations, "sentence_range", s)
                  \subseteq CardsHitting(citations, "paragraph", P))
          /\ CardsHitting(citations, "sentence_range", s)
                  \subseteq Elems(MapGet(citationMap.paragraphs, P))

\* C6: after createCitationMap, a paragraph number P hit by no paragraph citation has
\* no entry in paragraphs, and every sentence s of P keeps exactly the cards of the
\* sentence_range citations hitting s.
C6_UncitedParagraphIndependent ==
    citationMap # NoMap =>
        \A P \in ElementNums :
            CardsHitting(citations, "paragraph", P) = {} =>
                /\ P \notin DOMAIN citationMap.paragraphs
                /\ P \in DOMAIN DocParagraphs =>
                      \A s \in SentenceSpan(P) :
                          Elems(MapGet(citationMap.sentences, s))
                              = CardsHitting(citations, "sentence_range", s)

\* An uncited paragraph with a cited sentence, next to a cited paragraph.
C6_Witness ==
    /\ BuiltFromSections
    /\ \E P \in DOMAIN DocParagraphs : \E s \in SentenceSpan(P) :
          /\ CardsHitting(citations, "paragraph", P) = {}
          /\ CardsHitting(citations, "sentence_range", s) # {}
          /\ s \in DOMAIN citationMap.sentences
    /\ \E Q \in DOMAIN DocParagraphs : CardsHitting(citations, "paragraph", Q) # {}

\* C10: every card-id list stored in the index createCitationMap returned holds each
\* card_id at most once, in every type map and for every unit number.
C10_IndexEntriesDeduplicated ==
    citationMap # NoMap =>
        \A t \in ElementTypes : \A n \in DOMAIN citationMap[t] : NoDup(citationMap[t][n])

\* Two citations of one card reach the same paragraph entry, one directly and one
\* through the collapse of a sentence of the paragraph.
C10_Witness ==
    /\ BuiltFromSections
    /\ \E i, j \in DOMAIN citations : \E P \in DOMAIN DocParagraphs :
          /\ citations[i].card_id = citations[j].card_id
          /\ citations[i].citation_type = "paragraph" /\ Hits(citations[i], P)
          /\ citations[j].citation_type = "sentence_range"
          /\ \E s \in SentenceSpan(P) : Hits(citations[j], s)
          /\ citationMap.paragraphs[P] = <<citations[i].card_id>>

\* ------------------------------------------------------------ facade inputs
LongParagraph == [type |-> "paragraph", sentences |-> SentenceStride - 1]

\* Unit ranges, and the first sentence number of the second hundred.
FacadeRanges == UnitRanges \cup {<<SentenceStride, SentenceStride>>}
FacadeLists == CitationListsOf({"sentence_range", "paragraph"}, FacadeRanges, MaxCitations)

\* Paragraph-only content, a paragraph of SentenceStride - 1 sentences among them.
PolicyContents == ContentsOf(ParagraphItems \cup {LongParagraph})

FacadeTypes == {"sentence_range", "paragraph", "section", "list"}
FacadeNums == (1..(MaxUnit + 1)) \cup {SentenceStride}

ListOf(inst) == IF inst = 1 THEN citations ELSE refetched[inst - 1]
LiveInstances == {1} \cup {inst + 1 : inst \in DOMAIN refetched}

\* ------------------------------------------- actions of the facade's callers
CountBuild(inst) ==
    builds' = [builds EXCEPT ![inst] = IF CreatesMap(citationMapCache, inst) THEN @ + 1 ELSE @]

FindCitations(inst, elementType, elementNum) ==
    /\ citationMapCache' = EnsureCitationMap(citationMapCache, inst, ListOf(inst))
    /\ CountBuild(inst)
    /\ ret' = [op |-> "findCitations", inst |-> inst,
               val |-> findCitations(citationMapCache', elementType, elementNum, inst),
               flag |-> FALSE]
    /\ UNCHANGED <<appVars, inputVars, mapVars>>

ShouldHighlight(inst, elementType, elementNum) ==
    /\ citationMapCache' = shouldHighlightCache(citationMapCache, elementType, inst, ListOf(inst))
    /\ IF shouldHighlightCallsFindCitations(elementType)
       THEN CountBuild(inst)
       ELSE builds' = builds
    /\ ret' = [op |-> "shouldHighlight", inst |-> inst, val |-> <<>>,
               flag |-> shouldHighlight(citationMapCache, elementType, elementNum, inst,
                                        ListOf(inst))]
    /\ UNCHANGED <<appVars, inputVars, mapVars>>

GetCitationWrapper(inst, elementType, elementNum) ==
    /\ citationMapCache' = EnsureCitationMap(citationMapCache, inst, ListOf(inst))
    /\ CountBuild(inst)
    /\ LET w == getCitationWrapper(citationMapCache', elementType, elementNum, inst,
                                   ListOf(inst))
       IN  ret' = [op |-> "getCitationWrapper", inst |-> inst,
                   val |-> w.cardIds, flag |-> w.shouldWrap]
    /\ UNCHANGED <<appVars, inputVars, mapVars>>

\* A formatter hands the array findCitations returned for a unit to a CitationTooltip
\* (ImageFormatter: cardIds={cardIds}), whose tooltipBaseId sorts cardIds in place.
\* When findCitations returned the stored paragraph array, that array is the one
\* sorted.
CitationTooltip(inst, elementType, elementNum) ==
    /\ LET cache == EnsureCitationMap(citationMapCache, inst, ListOf(inst))
           cardIds == findCitations(cache, elementType, elementNum, inst)
       IN  /\ citationMapCache' =
                 IF findCitationsReturnsStored(cache, elementType, elementNum, inst)
                 THEN [cache EXCEPT ![inst]["paragraph"] =
                          MapSet(@, elementNum \div SentenceStride, JsSort(cardIds))]
                 ELSE cache
           /\ ret' = [op |-> "CitationTooltip", inst |-> inst, val |-> JsSort(cardIds),
                      flag |-> FALSE]
    /\ CountBuild(inst)
    /\ UNCHANGED <<appVars, inputVars, mapVars>>

NextFacade ==
    \/ \E inst \in LiveInstances, t \in FacadeTypes, n \in FacadeNums : FindCitations(inst, t, n)
    \/ \E inst \in LiveInstances, t \in FacadeTypes, n \in FacadeNums : ShouldHighlight(inst, t, n)
    \/ \E inst \in LiveInstances, t \in FacadeTypes, n \in FacadeNums : GetCitationWrapper(inst, t, n)
    \/ \E inst \in LiveInstances, t \in FacadeTypes, n \in FacadeNums : CitationTooltip(inst, t, n)

\* ----------------------- specification: the facade called for two list instances
InitFacade ==
    /\ citations \in FacadeLists
    /\ refetched \in {<<citations>>, <<SubSeq(citations, 2, Len(citations))>>}
    /\ doc = <<>>
    /\ segment = <<0, 0>>
    /\ documentJson = NoDoc
    /\ citationMap = NoMap
    /\ citationMapCache = EmptyCache
    /\ builds = NoBuilds
    /\ ret = NoRet
    /\ AppIdle

SpecFacade == InitFacade /\ [][NextFacade]_vars

\* ------------------- specification: the highlight policy over a numbered document
InitDocument(contents) ==
    /\ citations \in FacadeLists
    /\ refetched = <<>>
    /\ doc \in contents
    /\ segment = <<0, 0>>
    /\ documentJson = NoDoc
    /\ citationMap = NoMap
    /\ citationMapCache = EmptyCache
    /\ builds = NoBuilds
    /\ ret = NoRet
    /\ AppIdle

InitPolicy == InitDocument({d \in PolicyContents : Len(d) <= 1})

NextPolicy ==
    \/ \E t \in FacadeTypes, n \in FacadeNums : FindCitations(1, t, n)
    \/ \E t \in FacadeTypes, n \in FacadeNums : ShouldHighlight(1, t, n)

SpecPolicy == InitPolicy /\ [][NextPolicy]_vars

\* ------------------------ specification: the plain-text and the image formatter
\* formatImageContent: every block and paragraph is rendered through findCitations.
FormatImage ==
    /\ ret.op = "none"
    /\ citationMapCache' = EnsureCitationMap(citationMapCache, 1, citations)
    /\ CountBuild(1)
    /\ ret' = [op |-> "formatImageContent",
               val |-> ImageRenderBlocks(citationMapCache', ImageData(doc).blocks, 1, 1, 1)]
    /\ UNCHANGED <<appVars, inputVars, mapVars>>

NextFormat == FormatPlainText \/ FormatImage

InitFormat == InitDocument(PolicyContents)

SpecFormat == InitFormat /\ [][NextFormat]_vars

\* ------------------------------------------------ claims about the facade
IndexBuilt(inst) == citationMapCache[inst] # NoMap

\* C3: with the index built, a paragraph P that has a paragraph-level citation is
\* highlighted, whether or not its sentences are cited, and none of the sentences
\* of P is highlighted.
C3_CitedParagraphHighlightedAlone ==
    IndexBuilt(1) =>
        \A P \in DOMAIN DocParagraphs :
            CardsHitting(citations, "paragraph", P) # {} =>
                /\ shouldHighlight(citationMapCache, "paragraph", P, 1, citations)
                /\ \A s \in SentenceSpan(P) :
                      ~shouldHighlight(citationMapCache, "sentence_range", s, 1, citations)

\* The cards attached to a rendered paragraph and to its sentences.
AttachedCards(rendered) ==
    Elems(rendered.paragraph)
        \cup UNION {Elems(rendered.sentences[i]) : i \in DOMAIN rendered.sentences}

\* C4: in the plain-text and the image formatter, the card lists attached to a
\* paragraph cited at paragraph level and to its sentences contain every card that
\* cites a sentence of the paragraph.
C4_NoCardLostByCollapse ==
    ret.op \in {"formatPlainTextContent", "formatImageContent"} =>
        \A P \in DOMAIN DocParagraphs :
            CardsHitting(citations, "paragraph", P) # {} =>
                \A s \in SentenceSpan(P) :
                    CardsHitting(citations, "sentence_range", s) \subseteq AttachedCards(ret.val[P])

\* C5: with globally sequential sentence numbers, a sentence n whose paragraph has
\* no paragraph-level citation gets from findCitations exactly the cards of the
\* sentence_range citations hitting n, whichever other paragraphs are cited.
C5_UncitedParagraphSentenceLookup ==
    IndexBuilt(1) =>
        \A P \in DOMAIN DocParagraphs :
            CardsHitting(citations, "paragraph", P) = {} =>
                \A n \in SentenceSpan(P) :
                    Elems(findCitations(citationMapCache, "sentence_range", n, 1))
                        = CardsHitting(citations, "sentence_range", n)

\* C7: once an index is built, no later operation changes the contents or the
\* element order of an entry stored in it.
C7_IndexReadOnlyAfterBuild ==
    [][/\ citationMap # NoMap => citationMap' = citationMap
       /\ \A inst \in Instances :
             IndexBuilt(inst) => citationMapCache'[inst] = citationMapCache[inst]]_vars

\* The cards in an entry of an index, whatever their order.
SameLookups(cmapA, cmapB) ==
    /\ DOMAIN cmapA = DOMAIN cmapB
    /\ \A t \in DOMAIN cmapA :
          /\ DOMAIN cmapA[t] = DOMAIN cmapB[t]
          /\ \A n \in DOMAIN cmapA[t] : Elems(cmapA[t][n]) = Elems(cmapB[t][n])

\* C8: for one list instance the index is built at most once, later calls reuse
\* it, and the index a call with an instance reads is the one built from that
\* instance's own list.
C8_IndexBuiltOncePerInstance ==
    \A inst \in Instances :
        /\ builds[inst] <= 1
        /\ IndexBuilt(inst) <=> builds[inst] = 1
        /\ IndexBuilt(inst) =>
              /\ inst \in LiveInstances
              /\ SameLookups(CacheGet(citationMapCache, inst),
                             utils_createCitationMap(ListOf(inst)))

\* Both instances were queried, each has its own index, and the lists differ.
C8_Witness ==
    /\ refetched # <<>>
    /\ ListOf(1) # ListOf(2)
    /\ IndexBuilt(1) /\ IndexBuilt(2)
    /\ citationMapCache[1] # citationMapCache[2]
    /\ ret.op \in {"findCitations", "getCitationWrapper"}

\* C9: findCitations never returns a list in which a card_id occurs twice.
C9_FindCitationsDeduplicated ==
    ret.op = "findCitations" => NoDup(ret.val)

\* ------------- specification: unit lookups over section, list and table citations
UnitTypes == {"section", "list", "table"}

\* A citation_type of the Citation union that the switch of createCitationMap does
\* not name.
UnrecognisedType == "line_numbers"

UnitLists ==
    CitationListsOf(UnitTypes \cup {UnrecognisedType, "video_timestamp"}, UnitRanges,
                    MaxCitations)

\* No section, one paragraph, or one list item.
UnitContents ==
    {<<>>, <<<<[type |-> "paragraph", sentences |-> 1]>>>>, <<<<[type |-> "list"]>>>>}

\* Parsed objects that lack the expected keys: no sections key, or a section
\* without content (section.content?.forEach visits nothing).
MalformedDocuments == {[title |-> "untitled"], [sections |-> <<<<>>>>]}

InitUnits ==
    /\ citations \in UnitLists
    /\ refetched = <<>>
    /\ doc \in UnitContents
    /\ segment = <<0, 0>>
    /\ documentJson = NoDoc
    /\ citationMap = NoMap
    /\ citationMapCache = EmptyCache
    /\ builds = NoBuilds
    /\ ret = NoRet
    /\ AppIdle

\* A formatter's useMemo(() => createCitationMap(citations, data)) when JSON.parse
\* gave an object without the expected keys.
FormatMalformed ==
    /\ citationMap = NoMap
    /\ documentJson' \in MalformedDocuments
    /\ IF createCitationMapThrows(citations, documentJson')
       THEN /\ citationMap' = NoMap
            /\ ret' = [op |-> "TypeError", val |-> <<>>]
       ELSE /\ citationMap' = createCitationMap(citations, documentJson')
            /\ ret' = [op |-> "createCitationMap", val |-> <<>>]
    /\ UNCHANGED <<appVars, inputVars, facadeVars>>

NextUnits ==
    \/ FormatSections
    \/ FormatMalformed
    \/ \E t \in ElementTypes, n \in ElementNums : GetCombinedCitations(t, n)
    \/ \E t \in UnitTypes \cup {UnrecognisedType}, n \in ElementNums : FindCitations(1, t, n)

SpecUnits == InitUnits /\ [][NextUnits]_vars

\* C11: for a section, list or table type T and every n, the lookup of (T, n) in the
\* built index holds card c exactly when a citation of type T and card c has a range
\* [start, end] with start <= n <= end.
C11_RangeInclusive ==
    citationMap # NoMap =>
        \A T \in UnitTypes : \A n \in ElementNums :
            Elems(getCombinedCitations(citationMap, TargetMap(T), n))
                = CardsHitting(citations, T, n)

\* A range [start, end] with start < end: both endpoints are hits, start - 1 and
\* end + 1 are not.
C11_Witness ==
    /\ citationMap # NoMap
    /\ \E i \in DOMAIN citations :
          LET c == citations[i]
              start == c.citation_data[1][1]
              end == c.citation_data[1][2]
              lookup(n) == Elems(getCombinedCitations(citationMap, TargetMap(c.citation_type), n))
          IN  /\ c.citation_type \in UnitTypes
              /\ start < end
              /\ c.card_id \in lookup(start) /\ c.card_id \in lookup(end)
              /\ c.card_id \notin lookup(start - 1) /\ c.card_id \notin lookup(end + 1)

\* The citation_ids of the citations that put card c into the entry (t, n) of the
\* index: through the first pass, through the collapse of a sentence of paragraph
\* n, or through the overlap with segment n.
Contributors(t, n, c) ==
    {citations[k].citation_id : k \in {i \in DOMAIN citations :
        /\ citations[i].card_id = c
        /\ \/ /\ citations[i].citation_type # "video_timestamp"
              /\ TargetMap(citations[i].citation_type) = t
              /\ Hits(citations[i], n)
           \/ /\ t = "paragraphs"
              /\ citations[i].citation_type = "sentence_range"
              /\ n \in DOMAIN DocParagraphs
              /\ \E sn \in SentenceSpan(n) : Hits(citations[i], sn)
           \/ /\ t = "segments"
              /\ citations[i].citation_type = "video_timestamp"
              /\ (n + 1) \in DOMAIN WalkItems(documentJson)
              /\ SegmentHit(citations[i].citation_data, WalkItems(documentJson)[n + 1])}}

\* Each card of the entry can be given one of its contributing citations so that
\* the citation_ids ascend along the entry.
DisplayOrdered(t, n) ==
    LET entry == citationMap[t][n]
    IN  \E f \in [DOMAIN entry -> 1..Len(citations)] :
            /\ \A i \in DOMAIN entry : f[i] \in Contributors(t, n, entry[i])
            /\ \A i, j \in DOMAIN entry : i < j => f[i] < f[j]

\* C12: for every type and unit number, the cards getCombinedCitations returns from
\* the built index are in ascending order of the citation_id of the citation that
\* contributes each card.
C12_DisplayOrderByCitationId ==
    citationMap # NoMap =>
        \A t \in ElementTypes : \A n \in DOMAIN citationMap[t] : DisplayOrdered(t, n)

\* C13: when the parsed document has no sections key, or its sections have no
\* content, createCitationMap returns without throwing and every lookup in the
\* index it returned, for every type and unit number, is the empty list.
C13_MalformedDocumentLooksUpEmpty ==
    documentJson \in MalformedDocuments =>
        /\ ret.op # "TypeError"
        /\ citationMap # NoMap =>
              \A t \in ElementTypes : \A n \in ElementNums :
                  getCombinedCitations(citationMap, t, n) = <<>>

\* The number of units of a type that the content holds.
UnitsInDocument(t) ==
    CASE t = "paragraphs" -> Len(DocParagraphs)
      [] t = "sentences" -> SentencesThrough(Len(DocParagraphs))
      [] t = "sections" -> Len(doc)
      [] t = "lists" -> Len(SelectSeq(FlattenSections(doc), LAMBDA item : item.type = "list"))
      [] t = "segments" -> Len(SelectSeq(FlattenSections(doc), LAMBDA item : item.type = "segment"))
      [] OTHER -> 0

\* C14: a lookup of a unit number greater than the number of units of its type in
\* the document returns the empty list, whatever the ranges of the citations.
C14_OutOfRangeLooksUpEmpty ==
    citationMap # NoMap =>
        \A t \in ElementTypes : \A n \in ElementNums :
            n > UnitsInDocument(t) => getCombinedCitations(citationMap, t, n) = <<>>

\* The citation list without its citations of the unrecognised type.
WithoutUnrecognised(cits) ==
    SelectSeq(cits, LAMBDA c : c.citation_type # UnrecognisedType)

\* The types the two index builds file citations under.
RecognisedTypes ==
    {"sentence_range", "paragraph", "section", "list", "table", "video_timestamp"}

\* C15: a citation of an unrecognised type in the list does not make an index build
\* throw, and every lookup of a recognised type and unit number, in the index of
\* CitationTooltipFixed and in the index of utils/citations, returns what it returns
\* for the list without that citation.
C15_UnrecognisedTypeIgnored ==
    /\ ret.op = "TypeError" =>
          createCitationMapThrows(WithoutUnrecognised(citations), documentJson)
    /\ citationMap # NoMap =>
          \A t \in ElementTypes : \A n \in ElementNums :
              getCombinedCitations(citationMap, t, n)
                  = getCombinedCitations(
                        createCitationMap(WithoutUnrecognised(citations), documentJson), t, n)
    /\ IndexBuilt(1) =>
          \A t \in RecognisedTypes : \A n \in ElementNums :
              findCitations(citationMapCache, t, n, 1)
                  = findCitations(
                        EnsureCitationMap(EmptyCache, 1, WithoutUnrecognised(citations)), t, n, 1)

\* Both indices are built from a list that holds a citation of the unrecognised type
\* next to a recognised one, whose unit is found in both.
C15_Witness ==
    /\ citationMap # NoMap
    /\ IndexBuilt(1)
    /\ \E i, j \in DOMAIN citations :
          /\ citations[i].citation_type = UnrecognisedType
          /\ citations[j].citation_type \in UnitTypes
          /\ LET n == citations[j].citation_data[1][1]
                  t == citations[j].citation_type
             IN  /\ citations[j].card_id \in Elems(getCombinedCitations(citationMap, TargetMap(t), n))
                 /\ citations[j].card_id \in Elems(findCitations(citationMapCache, t, n, 1))

\* ------------------- specification: the wrapper policy over lists and sections
\* A list of the content with its items; a list takes the number of its first item
\* and the next list starts after its last item.
ItemisedLists == {[type |-> "list", items |-> k] : k \in 1..MaxListItems}

ListContents == ContentsOf(ItemisedLists)
WrapperLists == CitationListsOf({"list", "section"}, UnitRanges, MaxCitations)
WrapperTypes == {"list", "section"}
WrapperNums == 1..(MaxUnit + 1)

InitWrapper ==
    /\ citations \in WrapperLists
    /\ refetched = <<>>
    /\ doc \in ListContents
    /\ segment = <<0, 0>>
    /\ documentJson = NoDoc
    /\ citationMap = NoMap
    /\ citationMapCache = EmptyCache
    /\ builds = NoBuilds
    /\ ret = NoRet
    /\ AppIdle

NextWrapper ==
    \/ \E t \in WrapperTypes, n \in WrapperNums : GetCitationWrapper(1, t, n)
    \/ \E t \in WrapperTypes, n \in WrapperNums : ShouldHighlight(1, t, n)

SpecWrapper == InitWrapper /\ [][NextWrapper]_vars

\* The lists of the content, top to bottom.
DocLists == FlattenSections(doc)

RECURSIVE ItemsThrough(_)
ItemsThrough(k) == IF k = 0 THEN 0 ELSE ItemsThrough(k - 1) + DocLists[k].items

\* The numbers of the k-th list: its own number is the first, its items take them all.
ListSpan(k) == (ItemsThrough(k - 1) + 1)..ItemsThrough(k)
ListNumber(k) == ItemsThrough(k - 1) + 1

\* C16: for a list N of the document with items N..N+k-1, the cardIds of
\* getCitationWrapper('list', N) are exactly the cards citing N or one of its items.
C16_ListWrapperCoversOwnItems ==
    IndexBuilt(1) =>
        \A k \in DOMAIN DocLists :
            Elems(getCitationWrapper(citationMapCache, "list", ListNumber(k), 1, citations).cardIds)
                = UNION {CardsHitting(citations, "list", n) : n \in ListSpan(k)}

\* C20: shouldHighlight('section', n) is false for every n, also when section n is
\* cited, and so is the shouldWrap of getCitationWrapper('section', n).
C20_SectionNeverHighlighted ==
    \A n \in WrapperNums :
        /\ ~shouldHighlight(citationMapCache, "section", n, 1, citations)
        /\ ~getCitationWrapper(EnsureCitationMap(citationMapCache, 1, citations),
                               "section", n, 1, citations).shouldWrap

\* Only sections are cited, and a wrapper call returned the cards of a cited section
\* without asking for a wrap.
C20_Witness ==
    /\ IndexBuilt(1)
    /\ citations # <<>>
    /\ \A i \in DOMAIN citations : citations[i].citation_type = "section"
    /\ ret.op = "getCitationWrapper"
    /\ ret.val # <<>>
    /\ ret.flag = FALSE

\* ------------------------------------------- claims about transcript queries
\* The range and the segment share an endpoint: s = b or e = a.
TouchesSegment(range) == segment[1] = range[2] \/ segment[2] = range[1]

\* C17: a citation range and a segment that share only an endpoint overlap:
\* findOverlappingRanges on the list holding just that range returns its card, and
\* createCitationMap records the card for the segment in the segments map.
C17_TouchingEndpointOverlaps ==
    (Len(citations) = 1 /\ TouchesSegment(citations[1].citation_data[1])) =>
        /\ ret.op = "findCitationsForTimeRange" => ret.val = <<citations[1].card_id>>
        /\ citationMap # NoMap =>
              getCombinedCitations(citationMap, "segments", 0) = <<citations[1].card_id>>

\* A range (a, b) with a < b met by a point segment at b, queried and indexed.
C17_Witness ==
    /\ Len(citations) = 1
    /\ citations[1].citation_data[1][1] < citations[1].citation_data[1][2]
    /\ segment = <<citations[1].citation_data[1][2], citations[1].citation_data[1][2]>>
    /\ ret = [op |-> "findCitationsForTimeRange", val |-> <<citations[1].card_id>>]
    /\ citationMap # NoMap
    /\ getCombinedCitations(citationMap, "segments", 0) = <<citations[1].card_id>>

\* C18: the array findOverlappingRanges returns holds each cardId at most once.
C18_OverlapResultDeduplicated ==
    ret.op = "findCitationsForTimeRange" => NoDup(ret.val)

\* Two ranges of one card overlap the segment and the card is returned once.
C18_Witness ==
    /\ ret.op = "findCitationsForTimeRange"
    /\ \E i, j \in DOMAIN citations :
          /\ i # j
          /\ citations[i].card_id = citations[j].card_id
          /\ \A k \in {i, j} :
                Overlaps(citations[k].citation_data[1][1], citations[k].citation_data[1][2],
                         segment[1], segment[2])
          /\ ret.val = <<citations[i].card_id>>

RECURSIVE NumberItems(_, _, _)
NumberItems(items, currentSentenceNum, currentParagraphNum) ==
    IF items = <<>> THEN <<>>
    ELSE IF "sentences" \in DOMAIN items[1]
         THEN <<[paragraph |-> currentParagraphNum,
                 first |-> currentSentenceNum,
                 last |-> currentSentenceNum + items[1].sentences - 1]>>
              \o NumberItems(Tail(items), currentSentenceNum + items[1].sentences,
                             currentParagraphNum + 1)
         ELSE NumberItems(Tail(items), currentSentenceNum, currentParagraphNum)

\* secondPassNumbering with both counters declared inside the section loop.
secondPassNumbering_PerSection(docJson) ==
    IF "sections" \in DOMAIN docJson
    THEN FlattenSections([i \in DOMAIN docJson.sections |->
                              NumberItems(docJson.sections[i], 1, 1)])
    ELSE <<>>

\* let currentSentenceNum = 1; let currentParagraphNum = 1; then the walk over
\* sections and their content: the counters live outside both loops.
secondPassNumbering(docJson) == NumberItems(WalkItems(docJson), 1, 1)

\* C21: in the walk of createCitationMap over a document with sections, the k-th
\* paragraph item is processed under paragraph number k with the sentence span
\* [1 + sentences of all earlier paragraphs, sentences through this paragraph];
\* consecutive spans are contiguous and the spans of distinct paragraphs are disjoint
\* and increasing, whatever the section boundaries are.
C21_WalkNumbering ==
    BuiltFromSections =>
        LET nums == secondPassNumbering(documentJson)
        IN  /\ Len(nums) = Len(DocParagraphs)
            /\ \A k \in DOMAIN nums :
                  /\ nums[k].paragraph = k
                  /\ nums[k].first = SentencesThrough(k - 1) + 1
                  /\ nums[k].last = SentencesThrough(k)
                  /\ k > 1 => nums[k].first = nums[k - 1].last + 1
            /\ \A j, k \in DOMAIN nums : j < k => nums[j].last < nums[k].first

\* An index built from a document whose second section holds a paragraph that comes
\* after a paragraph of the first section: its numbers continue across the boundary.
C21_Witness ==
    /\ BuiltFromSections
    /\ Len(documentJson.sections) = 2
    /\ \E i \in DOMAIN documentJson.sections[1], j \in DOMAIN documentJson.sections[2] :
          /\ "sentences" \in DOMAIN documentJson.sections[1][i]
          /\ "sentences" \in DOMAIN documentJson.sections[2][j]
    /\ secondPassNumbering(documentJson)[2].paragraph = 2
    /\ secondPassNumbering(documentJson)[2].first > 1

\* ------------------------------------- SourceTextDisplay: formatImageContent
\* findCitations of SourceTextDisplay: a linear scan of the list; a citation of the
\* type pushes its card at the first range containing elementNum; the result is
\* deduplicated.
RECURSIVE DisplayScan(_, _, _)
DisplayScan(elementType, elementNum, cits) ==
    IF cits = <<>> THEN <<>>
    ELSE (IF cits[1].citation_type = elementType /\ Hits(cits[1], elementNum)
          THEN <<cits[1].card_id>> ELSE <<>>)
         \o DisplayScan(elementType, elementNum, Tail(cits))

Display_findCitations(elementType, elementNum, cits) ==
    Dedup(DisplayScan(elementType, elementNum, cits))

\* let sentenceNumber = 1; paragraph.sentences.forEach(... sentenceNumber++ ...):
\* the number looked up for each sentence and the cards combined for it. The counter
\* is declared inside the paragraph callback.
DisplaySentences(paragraph, blockCardIds, paragraphCardIds, cits) ==
    [idx \in 1..paragraph.sentences |->
        [sentenceNumber |-> idx,
         cardIds |-> Dedup(blockCardIds \o paragraphCardIds
                           \o Display_findCitations("sentence_range", idx, cits))]]

\* block.paragraphs.forEach(...): a paragraph without sentences is skipped and takes
\* no paragraph number.
RECURSIVE DisplayParagraphs(_, _, _, _)
DisplayParagraphs(paragraphs, blockCardIds, globalParagraphNumber, cits) ==
    IF paragraphs = <<>> THEN <<>>
    ELSE IF paragraphs[1].sentences > 0
         THEN <<DisplaySentences(paragraphs[1], blockCardIds,
                                 Display_findCitations("paragraph", globalParagraphNumber, cits),
                                 cits)>>
              \o DisplayParagraphs(Tail(paragraphs), blockCardIds, globalParagraphNumber + 1,
                                   cits)
         ELSE DisplayParagraphs(Tail(paragraphs), blockCardIds, globalParagraphNumber, cits)

\* data.blocks.forEach(...): the rendered paragraphs of all blocks, each the sequence
\* of its sentence lookups; globalParagraphNumber is the only counter that outlives a
\* block. A block without paragraphs and without metadata.original_text renders
\* nothing.
RECURSIVE DisplayBlocks(_, _, _)
DisplayBlocks(blocks, globalParagraphNumber, cits) ==
    IF blocks = <<>> THEN <<>>
    ELSE LET block == blocks[1]
             blockCardIds == Display_findCitations("block", block.id, cits)
             rendered == SelectSeq(block.paragraphs, LAMBDA q : q.sentences > 0)
         IN  DisplayParagraphs(block.paragraphs, blockCardIds, globalParagraphNumber, cits)
             \o DisplayBlocks(Tail(blocks), globalParagraphNumber + Len(rendered), cits)

\* ------------------------------------------------------------- PDFFormatter
isParagraphItem(item) == "sentences" \in DOMAIN item
isListItem(item) == ItemHasText(item)

\* renderParagraph with processTextWithSentences: the paragraph number and the
\* sentence numbers looked up, with the cards found.
PdfRenderParagraph(item, currentParagraphNum, currentSentenceNum, cmap) ==
    [kind |-> "paragraph",
     num |-> currentParagraphNum,
     cardIds |-> getCombinedCitations(cmap, "paragraphs", currentParagraphNum),
     parts |-> [idx \in 1..item.sentences |->
                   [num |-> currentSentenceNum + idx - 1,
                    cardIds |-> getCombinedCitations(cmap, "sentences",
                                                     currentSentenceNum + idx - 1)]]]

\* renderList of a run of list items: item idx is looked up in lists under
\* currentParagraphNum + idx, the list under currentParagraphNum; the caller
\* continues at currentParagraphNum + items.length.
PdfRenderList(items, currentParagraphNum, cmap) ==
    [kind |-> "list",
     num |-> currentParagraphNum,
     cardIds |-> getCombinedCitations(cmap, "lists", currentParagraphNum),
     parts |-> [idx \in 1..items |->
                   [num |-> currentParagraphNum + idx - 1,
                    cardIds |-> getCombinedCitations(cmap, "lists",
                                                     currentParagraphNum + idx - 1)]]]

\* content.forEach((item, idx) => ...) of renderSection; currentListItems is the
\* number of list items gathered and not yet rendered.
RECURSIVE PdfRenderContent(_, _, _, _, _, _)
PdfRenderContent(content, idx, currentListItems, nextParagraph, nextSentence, cmap) ==
    IF idx > Len(content)
    THEN [elements |-> <<>>, nextParagraph |-> nextParagraph, nextSentence |-> nextSentence]
    ELSE LET item == content[idx]
         IN  IF isParagraphItem(item)
             THEN LET pending == currentListItems > 0
                      paragraphNum == IF pending THEN nextParagraph + currentListItems
                                      ELSE nextParagraph
                      rest == PdfRenderContent(content, idx + 1, 0, paragraphNum + 1,
                                               nextSentence + item.sentences, cmap)
                  IN  [rest EXCEPT !.elements =
                          (IF pending
                           THEN <<PdfRenderList(currentListItems, nextParagraph, cmap)>>
                           ELSE <<>>)
                          \o <<PdfRenderParagraph(item, paragraphNum, nextSentence, cmap)>>
                          \o @]
             ELSE IF isListItem(item)
             THEN LET gathered == currentListItems + 1
                      closes == \/ idx = Len(content)
                                \/ idx + 1 <= Len(content) /\ ~isListItem(content[idx + 1])
                      rest == IF closes
                              THEN PdfRenderContent(content, idx + 1, 0,
                                                    nextParagraph + gathered, nextSentence, cmap)
                              ELSE PdfRenderContent(content, idx + 1, gathered,
                                                    nextParagraph, nextSentence, cmap)
                  IN  IF closes
                      THEN [rest EXCEPT !.elements =
                               <<PdfRenderList(gathered, nextParagraph, cmap)>> \o @]
                      ELSE rest
             ELSE PdfRenderContent(content, idx + 1, currentListItems, nextParagraph,
                                   nextSentence, cmap)

\* data.sections?.forEach(section => renderSection(...)) of formatPDFContent: the
\* counters returned by one section are those the next one starts with.
RECURSIVE PdfRenderSections(_, _, _, _)
PdfRenderSections(sections, currentParagraphNum, currentSentenceNum, cmap) ==
    IF sections = <<>> THEN <<>>
    ELSE LET r == PdfRenderContent(sections[1], 1, 0, currentParagraphNum,
                                   currentSentenceNum, cmap)
         IN  r.elements \o PdfRenderSections(Tail(sections), r.nextParagraph,
                                             r.nextSentence, cmap)

\* ------------------------------------------ CitationTooltip: the displayed list
\* new Set(citations.filter(c => cardIds.includes(c.card_id))): the elements of the
\* Set are the citation objects, which the Set tells apart by identity. An object is
\* given here by its position in the list; filter yields every position once.
relevantCitations(cits, cardIds) ==
    Dedup(SelectSeq([i \in DOMAIN cits |-> i],
                    LAMBDA i : cits[i].card_id \in Elems(cardIds)))

\* Array.prototype.sort with (a, b) => a.citation_id - b.citation_id; stable.
RECURSIVE InsertCitation(_, _, _)
InsertCitation(cits, sorted, i) ==
    IF sorted = <<>> THEN <<i>>
    ELSE IF cits[sorted[Len(sorted)]].citation_id > cits[i].citation_id
         THEN Append(InsertCitation(cits, SubSeq(sorted, 1, Len(sorted) - 1), i),
                     sorted[Len(sorted)])
         ELSE Append(sorted, i)

RECURSIVE SortByCitationId(_, _)
SortByCitationId(cits, positions) ==
    IF positions = <<>> THEN <<>>
    ELSE InsertCitation(cits, SortByCitationId(cits, SubSeq(positions, 1, Len(positions) - 1)),
                        positions[Len(positions)])

\* [...relevantCitations].sort(...): the citations the tooltip lists, one entry each.
sortedCitations(cits, cardIds) ==
    LET shown == SortByCitationId(cits, relevantCitations(cits, cardIds))
    IN  [k \in DOMAIN shown |-> cits[shown[k]]]

\* -------------- specification: the renderers that number the document themselves
InitRender ==
    /\ citations \in CitationListsOf({"sentence_range", "paragraph"}, UnitRanges, MaxCitations)
    /\ refetched = <<>>
    /\ doc \in TextContents
    /\ segment = <<0, 0>>
    /\ documentJson = NoDoc
    /\ citationMap = NoMap
    /\ citationMapCache = EmptyCache
    /\ builds = NoBuilds
    /\ ret = NoRet
    /\ AppIdle

\* formatImageContent of SourceTextDisplay on the image JSON of the content.
DisplayFormatImage ==
    /\ ret.op = "none"
    /\ documentJson' = ImageData(doc)
    /\ ret' = [op |-> "SourceTextDisplay.formatImageContent",
               val |-> DisplayBlocks(documentJson'.blocks, 1, citations)]
    /\ UNCHANGED <<appVars, inputVars, citationMap, facadeVars>>

\* formatPDFContent: the index is built from the parsed content and every section is
\* rendered with the formatter's own counters.
FormatPDF ==
    /\ ret.op = "none"
    /\ documentJson' = [sections |-> doc]
    /\ citationMap' = createCitationMap(citations, documentJson')
    /\ ret' = [op |-> "formatPDFContent",
               val |-> PdfRenderSections(documentJson'.sections, 1, 1, citationMap')]
    /\ UNCHANGED <<appVars, inputVars, facadeVars>>

\* The paragraphs and sentences formatPDFContent rendered, as <<type map, number>>.
RenderedUnits(elements) ==
    UNION {{<<"paragraphs", elements[k].num>>}
               \cup {<<"sentences", elements[k].parts[i].num>> : i \in DOMAIN elements[k].parts} :
           k \in {j \in DOMAIN elements : elements[j].kind = "paragraph"}}

\* formatPDFContent wraps a rendered unit that has cards in a CitationTooltip with the
\* array the lookup returned: tooltipBaseId sorts that array in place, and the
\* tooltip lists sortedCitations under "Referenced in N cards".
RenderCitationTooltip(elementType, elementNum) ==
    /\ ret.op = "formatPDFContent"
    /\ <<elementType, elementNum>> \in RenderedUnits(ret.val)
    /\ Len(getCombinedCitations(citationMap, elementType, elementNum)) > 0
    /\ citationMap' = [citationMap EXCEPT ![elementType] =
                          MapSet(@, elementNum, JsSort(@[elementNum]))]
    /\ ret' = [op |-> "CitationTooltip",
               cardIds |-> citationMap'[elementType][elementNum],
               val |-> sortedCitations(citations, citationMap'[elementType][elementNum])]
    /\ UNCHANGED <<appVars, inputVars, documentJson, facadeVars>>

NextRender ==
    \/ DisplayFormatImage
    \/ FormatPDF
    \/ \E t \in {"sentences", "paragraphs"}, n \in ElementNums : RenderCitationTooltip(t, n)

SpecRender == InitRender /\ [][NextRender]_vars

\* C22: in formatImageContent of SourceTextDisplay the sentence number of every
\* sentence_range lookup is globally sequential: the i-th sentence of the P-th
\* paragraph is looked up under the number of sentences before P plus i, so two
\* sentences of different paragraphs never share a number.
C22_DisplaySentenceNumbersGlobal ==
    ret.op = "SourceTextDisplay.formatImageContent" =>
        /\ \A P \in DOMAIN ret.val : \A i \in DOMAIN ret.val[P] :
              ret.val[P][i].sentenceNumber = SentencesThrough(P - 1) + i
        /\ \A P, Q \in DOMAIN ret.val : \A i \in DOMAIN ret.val[P], j \in DOMAIN ret.val[Q] :
              P # Q => ret.val[P][i].sentenceNumber # ret.val[Q][j].sentenceNumber

\* C24: for a PDF-shaped document, the paragraph number and the sentence numbers
\* under which formatPDFContent looks the k-th paragraph item up are those under
\* which the second pass of createCitationMap processed it.
C24_PdfNumberingAgrees ==
    ret.op = "formatPDFContent" =>
        LET nums == secondPassNumbering(documentJson)
            pars == SelectSeq(ret.val, LAMBDA el : el.kind = "paragraph")
        IN  /\ Len(pars) = Len(nums)
            /\ \A k \in DOMAIN pars :
                  /\ pars[k].num = nums[k].paragraph
                  /\ \A i \in DOMAIN pars[k].parts :
                        pars[k].parts[i].num = nums[k].first + i - 1

\* C23: history independence of the highlight policy: whatever facade calls were made
\* on the list before, shouldHighlight(type, n, citations) returns what it returns on
\* a list that was never passed to the facade; in particular the value for a
\* paragraph is the same before and after findCitations has been called on the list.
C23_HighlightHistoryIndependent ==
    \A t \in FacadeTypes, n \in FacadeNums :
        shouldHighlight(citationMapCache, t, n, 1, citations)
            = shouldHighlight(EmptyCache, t, n, 1, citations)

\* ----------------- specification: findOverlappingRanges applied to any range list
\* The exported function takes whatever list its caller hands over: the ranges of
\* the citations in list order, and a segment given by any two times.
InitRanges ==
    /\ citations \in VideoCitationLists
    /\ refetched = <<>>
    /\ doc = <<>>
    /\ segment \in Times \X Times
    /\ documentJson = NoDoc
    /\ citationMap = NoMap
    /\ citationMapCache = EmptyCache
    /\ builds = NoBuilds
    /\ ret = NoRet
    /\ AppIdle

FindOverlappingRanges ==
    /\ ret.op = "none"
    /\ ret' = [op |-> "findOverlappingRanges",
               val |-> findOverlappingRanges(CollectRanges(citations), segment[1], segment[2])]
    /\ UNCHANGED <<appVars, inputVars, mapVars, facadeVars>>

NextRanges == FindOverlappingRanges

SpecRanges == InitRanges /\ [][NextRanges]_vars

\* C25: for every range list, sorted or not, and every segment, each card
\* findOverlappingRanges returns owns a range r of the list with r.end >= segStart
\* and r.start <= segEnd; a card whose ranges all miss the segment is not returned.
C25_OverlapResultSound ==
    ret.op = "findOverlappingRanges" =>
        LET rs == CollectRanges(citations)
        IN  \A c \in Elems(ret.val) :
                \E k \in DOMAIN rs : /\ rs[k].cardId = c
                                     /\ rs[k].end >= segment[1]
                                     /\ rs[k].start <= segment[2]

\* An unsorted list: the call returned a card and left out a card of the list whose
\* ranges all miss the segment.
C25_Witness ==
    /\ ret.op = "findOverlappingRanges"
    /\ ~IsSortedRanges(CollectRanges(citations))
    /\ ret.val # <<>>
    /\ \E k \in DOMAIN CollectRanges(citations) :
          /\ CollectRanges(citations)[k].cardId \notin Elems(ret.val)
          /\ CollectRanges(citations)[k].cardId
                 \notin LinearScan(CollectRanges(citations), segment[1], segment[2])

\* The sorted list has non-decreasing ends: no range contains a later-starting one.
NonDecreasingEnds(sr) == \A i, j \in DOMAIN sr : i < j => sr[i].end <= sr[j].end

\* C26: when the ranges sorted by (start, end) also have non-decreasing ends,
\* findOverlappingRanges returns exactly the cards of the ranges overlapping the
\* segment, the set a linear scan returns.
C26_NestedFreeEqualsLinearScan ==
    ret.op = "findCitationsForTimeRange" =>
        LET sr == SortRanges(CollectRanges(citations))
        IN  IsSortedRanges(sr) /\ NonDecreasingEnds(sr) =>
                Elems(ret.val) = LinearScan(sr, segment[1], segment[2])

\* Three ranges with non-decreasing ends all overlap the segment: the call found the
\* cards on both sides of the range the search stopped at.
C26_Witness ==
    /\ ret.op = "findCitationsForTimeRange"
    /\ LET sr == SortRanges(CollectRanges(citations))
       IN  /\ Len(sr) = 3
           /\ NonDecreasingEnds(sr)
           /\ sr[1].end < sr[3].end
           /\ sr[1].cardId # sr[3].cardId
           /\ \A k \in DOMAIN sr : Overlaps(sr[k].start, sr[k].end, segment[1], segment[2])
           /\ Elems(ret.val) = {sr[1].cardId, sr[3].cardId}

\* C27: the list a CitationTooltip displays holds at most one entry per card, so the
\* count shown as "Referenced in N cards" is the number of distinct cards of cardIds
\* that occur in the citation list.
C27_TooltipListOnePerCard ==
    ret.op = "CitationTooltip" =>
        /\ \A i, j \in DOMAIN ret.val : i # j => ret.val[i].card_id # ret.val[j].card_id
        /\ Len(ret.val)
              = Cardinality({c \in Elems(ret.cardIds) :
                                \E k \in DOMAIN citations : citations[k].card_id = c})

\* ======================================================== the study page
MaxFlashcards == 2      \* set.flashcards.length is 1..MaxFlashcards
MaxInFlight == 2        \* handler calls suspended at an await at one time
MaxReviews == 3         \* card reviews created in one session

citationVars == <<inputVars, mapVars, facadeVars, ret>>

\* No formatter is rendering.
CitationsIdle ==
    /\ citations = <<>>
    /\ refetched = <<>>
    /\ doc = <<>>
    /\ segment = <<0, 0>>
    /\ documentJson = NoDoc
    /\ citationMap = NoMap
    /\ citationMapCache = EmptyCache
    /\ builds = NoBuilds
    /\ ret = NoRet

\* The page after its first render: the useState initial values; length is the
\* number of flashcards of the set the fetch will deliver. currentReviewId 0 is null.
InitStudy ==
    /\ CitationsIdle
    /\ \E n \in 1..MaxFlashcards :
          studyPage = [length |-> n, loaded |-> FALSE, isLoading |-> TRUE, error |-> FALSE,
                       currentCardIndex |-> 0, showAnswer |-> FALSE, isSubmitting |-> FALSE,
                       isComplete |-> FALSE, currentReviewId |-> 0]
    /\ inFlight = <<>>
    /\ server = [reviews |-> 0, scored |-> <<>>, completions |-> 0]
    /\ flashcards = <<>>
    /\ deletedFlashcardIds = <<>>
    /\ poll = NoPoll

\* The render reaches the card view: not loading, no error, set and session present,
\* session not complete.
CardDisplayed ==
    /\ ~studyPage.isLoading
    /\ ~studyPage.error
    /\ studyPage.loaded
    /\ ~studyPage.isComplete

RemoveAt(s, i) == SubSeq(s, 1, i - 1) \o SubSeq(s, i + 1, Len(s))

\* fetchSet: getFlashcardSet and createStudySession resolved; setSet, setSession,
\* and setIsLoading(false) in the finally block.
FetchSetResolves ==
    /\ studyPage.isLoading
    /\ studyPage' = [studyPage EXCEPT !.loaded = TRUE, !.isLoading = FALSE]
    /\ UNCHANGED <<citationVars, inFlight, server, flashcards, deletedFlashcardIds, poll>>

\* fetchSet: one of the two requests rejected; setError, setIsLoading(false).
FetchSetRejects ==
    /\ studyPage.isLoading
    /\ studyPage' = [studyPage EXCEPT !.error = TRUE, !.isLoading = FALSE]
    /\ UNCHANGED <<citationVars, inFlight, server, flashcards, deletedFlashcardIds, poll>>

\* handleShowAnswer up to its await: createCardReview is sent. The button is rendered
\* by CardDisplay while showAnswer is false.
ClickShowAnswer ==
    /\ CardDisplayed
    /\ ~studyPage.showAnswer
    /\ Len(inFlight) < MaxInFlight
    /\ server.reviews < MaxReviews
    /\ server' = [server EXCEPT !.reviews = @ + 1]
    /\ inFlight' = Append(inFlight, [handler |-> "handleShowAnswer", awaits |-> "createCardReview",
                                     currentCardIndex |-> studyPage.currentCardIndex,
                                     review |-> server'.reviews])
    /\ UNCHANGED <<citationVars, studyPage, flashcards, deletedFlashcardIds, poll>>

\* handleSubmitAnswer up to its await: setIsSubmitting(true), setError(null), and
\* submitAnswerAndWaitForScore creates the review.
ClickSubmitAnswer ==
    /\ CardDisplayed
    /\ ~studyPage.isSubmitting
    /\ Len(inFlight) < MaxInFlight
    /\ server.reviews < MaxReviews
    /\ studyPage' = [studyPage EXCEPT !.isSubmitting = TRUE, !.error = FALSE]
    /\ server' = [server EXCEPT !.reviews = @ + 1]
    /\ inFlight' = Append(inFlight, [handler |-> "handleSubmitAnswer",
                                     awaits |-> "submitAnswerAndWaitForScore",
                                     currentCardIndex |-> studyPage.currentCardIndex,
                                     review |-> server'.reviews])
    /\ UNCHANGED <<citationVars, flashcards, deletedFlashcardIds, poll>>

\* A grade button of SelfAssessment is clicked: the buttons are rendered while
\* showAnswer holds and are disabled by isSubmitting only. handleGradeAnswer returns
\* at once without a review id; otherwise createReviewScore is sent and the call is
\* suspended with the currentCardIndex and currentReviewId of the render it was
\* created in.
ClickGrade ==
    /\ CardDisplayed
    /\ studyPage.showAnswer
    /\ ~studyPage.isSubmitting
    /\ studyPage.currentReviewId # 0
    /\ Len(inFlight) < MaxInFlight
    /\ server' = [server EXCEPT !.scored = Append(@, studyPage.currentCardIndex)]
    /\ inFlight' = Append(inFlight, [handler |-> "handleGradeAnswer", awaits |-> "createReviewScore",
                                     currentCardIndex |-> studyPage.currentCardIndex,
                                     review |-> studyPage.currentReviewId])
    /\ UNCHANGED <<citationVars, studyPage, flashcards, deletedFlashcardIds, poll>>

\* handleGradeAnswer after createReviewScore resolved, with the values of its closure:
\* the last card asks for completion, any other card moves on with
\* setCurrentCardIndex(prev => prev + 1).
GradeContinues(i) ==
    LET call == inFlight[i]
    IN  IF call.currentCardIndex < studyPage.length - 1
        THEN /\ studyPage' = [studyPage EXCEPT !.currentCardIndex = @ + 1,
                                               !.showAnswer = FALSE,
                                               !.currentReviewId = 0]
             /\ inFlight' = RemoveAt(inFlight, i)
             /\ server' = server
        ELSE /\ server' = [server EXCEPT !.completions = @ + 1]
             /\ inFlight' = [inFlight EXCEPT ![i].awaits = "completeStudySession"]
             /\ studyPage' = studyPage

\* The request a suspended call awaits resolves and the call runs to its next await
\* or to its end.
Resolves(i) ==
    /\ LET call == inFlight[i]
       IN  CASE call.awaits = "createCardReview" ->
                  /\ studyPage' = [studyPage EXCEPT !.currentReviewId = call.review,
                                                    !.showAnswer = TRUE]
                  /\ inFlight' = RemoveAt(inFlight, i)
                  /\ server' = server
             [] call.awaits = "submitAnswerAndWaitForScore" ->
                  /\ studyPage' = [studyPage EXCEPT !.currentReviewId = call.review,
                                                    !.showAnswer = TRUE,
                                                    !.isSubmitting = FALSE]
                  /\ inFlight' = RemoveAt(inFlight, i)
                  /\ server' = server
             [] call.awaits = "createReviewScore" -> GradeContinues(i)
             [] call.awaits = "completeStudySession" ->
                  /\ studyPage' = [studyPage EXCEPT !.isComplete = TRUE]
                  /\ inFlight' = RemoveAt(inFlight, i)
                  /\ server' = server
    /\ UNCHANGED <<citationVars, flashcards, deletedFlashcardIds, poll>>

\* The request a suspended call awaits rejects: the catch block sets the error, and
\* the finally block of handleSubmitAnswer clears isSubmitting.
Rejects(i) ==
    /\ studyPage' = [studyPage EXCEPT
                        !.error = TRUE,
                        !.isSubmitting = IF inFlight[i].handler = "handleSubmitAnswer"
                                         THEN FALSE ELSE @]
    /\ inFlight' = RemoveAt(inFlight, i)
    /\ UNCHANGED <<citationVars, server, flashcards, deletedFlashcardIds, poll>>

NextStudy ==
    \/ FetchSetResolves
    \/ FetchSetRejects
    \/ ClickShowAnswer
    \/ ClickSubmitAnswer
    \/ ClickGrade
    \/ \E i \in DOMAIN inFlight : Resolves(i)
    \/ \E i \in DOMAIN inFlight : Rejects(i)

SpecStudy == InitStudy /\ [][NextStudy]_vars

\* C28: under every interleaving of clicks and completions, currentCardIndex is
\* within 0..set.flashcards.length-1 whenever a card is displayed, it has advanced
\* by one per graded card (it never exceeds the number of cards a grade was sent
\* for), and completeStudySession is called at most once in the session.
C28_StudyPageConsistent ==
    /\ CardDisplayed => studyPage.currentCardIndex \in 0..(studyPage.length - 1)
    /\ studyPage.currentCardIndex <= Cardinality(Elems(server.scored))
    /\ server.completions <= 1

\* ========================================================== the edit form
MaxInitialCards == 2    \* flashcards of initialSet, with ids 1..MaxInitialCards
MaxFormCards == 3       \* handleAddFlashcard is not taken beyond this many cards

\* useState(initialSet.flashcards.map(card => ({ ...card, isNew: false }))): the
\* stored cards have distinct positive ids.
InitForm ==
    /\ CitationsIdle
    /\ studyPage = NoPage
    /\ inFlight = <<>>
    /\ server = NoServer
    /\ \E n \in 0..MaxInitialCards :
          flashcards = [i \in 1..n |-> [id |-> i, isNew |-> FALSE, card_index |-> i - 1]]
    /\ deletedFlashcardIds = <<>>
    /\ poll = NoPoll

\* setFlashcards([...flashcards, { id: -1 * (flashcards.length + 1), isNew: true,
\*                                 card_index: flashcards.length }])
handleAddFlashcard ==
    /\ Len(flashcards) < MaxFormCards
    /\ flashcards' = Append(flashcards, [id |-> -1 * (Len(flashcards) + 1), isNew |-> TRUE,
                                         card_index |-> Len(flashcards)])
    /\ UNCHANGED <<citationVars, studyPage, inFlight, server, deletedFlashcardIds, poll>>

\* if (flashcardId > 0) setDeletedFlashcardIds([...deletedFlashcardIds, flashcardId]);
\* setFlashcards(flashcards.filter(card => card.id !== flashcardId))
handleRemoveFlashcard(flashcardId) ==
    /\ deletedFlashcardIds' = IF flashcardId > 0 THEN Append(deletedFlashcardIds, flashcardId)
                              ELSE deletedFlashcardIds
    /\ flashcards' = SelectSeq(flashcards, LAMBDA card : card.id # flashcardId)
    /\ UNCHANGED <<citationVars, studyPage, inFlight, server, poll>>

\* handleFlashcardChange(index, field, value): the card at index is replaced by a copy
\* with card_index: index; front and back are not part of the state kept here.
handleFlashcardChange(index) ==
    /\ flashcards' = [flashcards EXCEPT ![index].card_index = index - 1]
    /\ UNCHANGED <<citationVars, studyPage, inFlight, server, deletedFlashcardIds, poll>>

\* The remove button of a card passes that card's id.
NextForm ==
    \/ handleAddFlashcard
    \/ \E i \in DOMAIN flashcards : handleRemoveFlashcard(flashcards[i].id)
    \/ \E i \in DOMAIN flashcards : handleFlashcardChange(i)

SpecForm == InitForm /\ [][NextForm]_vars

\* C29: after any sequence of handleAddFlashcard and handleRemoveFlashcard, the
\* flashcards of the form have pairwise distinct ids, so handleRemoveFlashcard(id)
\* removes exactly one card.
C29_FlashcardIdsDistinct ==
    \A i, j \in DOMAIN flashcards : i # j => flashcards[i].id # flashcards[j].id

\* ========================================================= waitForAIScore
MaxAttempts == 3        \* maxAttempts is 0..MaxAttempts
MaxScores == 2          \* scores in one response of getReviewScores

\* A ReviewScore, reduced to score_type and score_metadata?.status ("none" when the
\* score has no metadata or no status).
ScoreKinds ==
    {[score_type |-> "self_assessed", status |-> "none"],
     [score_type |-> "semantic_similarity", status |-> "none"]}
    \cup {[score_type |-> "final_ai", status |-> st] :
              st \in {"completed", "error", "pending", "none"}}

\* The responses of getReviewScores: a review has at most one final_ai score.
ScoreLists ==
    {s \in UNION {[1..n -> ScoreKinds] : n \in 0..MaxScores} :
        Cardinality({i \in DOMAIN s : s[i].score_type = "final_ai"}) <= 1}

\* scores.find(s => s.score_type === ScoreType.FINAL_AI): the first such score, as its
\* position; 0 for undefined.
RECURSIVE FindFinalScore(_, _)
FindFinalScore(scores, i) ==
    IF i > Len(scores) THEN 0
    ELSE IF scores[i].score_type = "final_ai" THEN i
    ELSE FindFinalScore(scores, i + 1)

\* The completed branch returning the response as it came.
ScoresReturned_All(scores) == scores

\* scores.filter(s => s.score_type !== ScoreType.SELF_ASSESSED)
ScoresReturned(scores) ==
    SelectSeq(scores, LAMBDA s : s.score_type # "self_assessed")

\* The call waitForAIScore(reviewId, maxAttempts, interval) at the test of its loop.
InitPoll ==
    /\ CitationsIdle
    /\ studyPage = NoPage
    /\ inFlight = <<>>
    /\ server = NoServer
    /\ flashcards = <<>>
    /\ deletedFlashcardIds = <<>>
    /\ \E m \in 0..MaxAttempts :
          poll = [maxAttempts |-> m, attempt |-> 0, calls |-> 0, pc |-> "for",
                  scores |-> <<>>, result |-> <<>>]

Polling == poll # NoPoll

\* attempt < maxAttempts: the body starts and getReviewScores(reviewId) is called.
PollRequest ==
    /\ poll.pc = "for"
    /\ poll.attempt < poll.maxAttempts
    /\ poll' = [poll EXCEPT !.calls = @ + 1, !.pc = "getReviewScores"]
    /\ UNCHANGED <<citationVars, studyPage, inFlight, server, flashcards, deletedFlashcardIds>>

\* The loop ends without completion: return [].
PollGivesUp ==
    /\ poll.pc = "for"
    /\ poll.attempt >= poll.maxAttempts
    /\ poll' = [poll EXCEPT !.pc = "returned", !.result = <<>>]
    /\ UNCHANGED <<citationVars, studyPage, inFlight, server, flashcards, deletedFlashcardIds>>

\* getReviewScores resolves with scores: no final score or a status other than
\* completed and error waits for the timer; completed returns the filtered scores;
\* error returns [].
PollResponse(scores) ==
    /\ poll.pc = "getReviewScores"
    /\ LET finalScore == FindFinalScore(scores, 1)
           status == IF finalScore = 0 THEN "none" ELSE scores[finalScore].status
       IN  poll' = IF finalScore = 0 THEN [poll EXCEPT !.scores = scores, !.pc = "setTimeout"]
                   ELSE IF status = "completed"
                   THEN [poll EXCEPT !.scores = scores, !.pc = "returned",
                                     !.result = ScoresReturned(scores)]
                   ELSE IF status = "error"
                   THEN [poll EXCEPT !.scores = scores, !.pc = "returned", !.result = <<>>]
                   ELSE [poll EXCEPT !.scores = scores, !.pc = "setTimeout"]
    /\ UNCHANGED <<citationVars, studyPage, inFlight, server, flashcards, deletedFlashcardIds>>

\* getReviewScores throws (response not ok): the call rejects.
PollRejects ==
    /\ poll.pc = "getReviewScores"
    /\ poll' = [poll EXCEPT !.pc = "thrown"]
    /\ UNCHANGED <<citationVars, studyPage, inFlight, server, flashcards, deletedFlashcardIds>>

\* The setTimeout promise resolves: attempt++ and back to the loop test.
PollTimer ==
    /\ poll.pc = "setTimeout"
    /\ poll' = [poll EXCEPT !.attempt = @ + 1, !.pc = "for"]
    /\ UNCHANGED <<citationVars, studyPage, inFlight, server, flashcards, deletedFlashcardIds>>

NextPoll ==
    \/ PollRequest
    \/ PollGivesUp
    \/ \E scores \in ScoreLists : PollResponse(scores)
    \/ PollRejects
    \/ PollTimer

SpecPoll == InitPoll /\ [][NextPoll]_vars

\* The response holds a final_ai score with the status.
HasFinalScore(scores, status) ==
    \E i \in DOMAIN scores : scores[i].score_type = "final_ai" /\ scores[i].status = status

====
